---- MODULE Spec2Model ----
(***************************************************************************)
(* The card codec of the character card editor: read_character and         *)
(* write_character of src/char-edit-04.py (the same code is in             *)
(* src/beaver-edit-03.py), with the library conversions they compose       *)
(* (json.dumps / json.loads, str.encode / bytes.decode, base64) modelled   *)
(* by what they compute on text, character by character; and the worldbook *)
(* import of the same file: process_worldbook and import_worldbook, as the *)
(* handler CharacterBookWidget.import_worldbook calls them.                *)
(* Further specifications model the editor and its book widget, the image  *)
(* swap of changeImageClicked, the card list, and the chunked generation   *)
(* of the AI assistant.                                                    *)
(*                                                                         *)
(* A Python value is a record of one field, named after its type, so that  *)
(* values of two types are told apart by the field and their contents are  *)
(* never compared; a dict is its sequence of <<key, value>> items in       *)
(* insertion order; a str is a TLA+ string over the printable ASCII        *)
(* characters (the backquote excepted, which a TLA+ string cannot hold).   *)
(* The equality of the model is structural, so it implies Python's == on   *)
(* the values modelled.                                                    *)
(***************************************************************************)
EXTENDS Integers, Sequences, FiniteSets, TLC

VARIABLES
    file,      \* the file at `path`: its format and, for a PNG, its text chunks
    written,   \* the card the last write_character put in the file, if any
    previous,  \* the card the write_character before that one put in it, if any
    call,      \* the last call made
    decoded,   \* read_character: the value json.loads returned (line 130), if any
    ret,       \* the outcome of the last call: a value returned or an error raised
    source,        \* the worldbook import: the document json.load returned (line 630)
    document,      \* that document as process_worldbook left it (line 631)
    worldBook,     \* the handler's worldBook once process_worldbook returned (line 631)
    original,      \* the editor's character book before any import
    bookBefore,    \* the editor's character book before the last import
    characterBook, \* the editor's character book (line 634)
    imports,       \* the calls of import_worldbook made so far
    editorData,    \* the editor: the card EditorWidget.fullData refers to (line 1614)
    bookData,      \* the card CharacterBookWidget.fullData refers to (line 534)
    aliased,       \* the two attributes refer to one and the same card
    editorForm,    \* the boxes of the editor widget
    bookForm,      \* the boxes of the book widget and its entry widgets
    dirty,         \* the list row of the card carries the dirty style
    steps,         \* the handlers run so far
    pc,            \* Change Image: the statement changeImageClicked is at
    disk,          \* the files at the card's path (original) and at original + ".bak"
    new_png,       \* the file the user chose (line 1888)
    kept,          \* the file at the card's path when changeImageClicked was entered
    swallowed,     \* the recovery of lines 1907-1913 raised and passed
    swaps,         \* the calls of changeImageClicked made so far
    listing,       \* the card list: the .png files of the directory, sorted (line 1979)
    rows,          \* the rows of the ImageList
    stack,         \* the editors of ImageList.stack
    current,       \* the index of the current widget of the stack, 0 for none
    virtual_count, \* ImageList.virtual_count
    at,             \* chunked generation: where _call_koboldcpp_chunked is at
    aggregated,     \* its aggregated text (line 1036)
    requests,       \* the generate requests it has posted
    max_passes,     \* its max_passes (line 1003)
    stop_requested, \* AIAssistWidget._stop_requested
    stopEnabled,    \* the Stop button is enabled
    observed        \* it has read _stop_requested set (line 1053)

\* The state of the codec, and the state of the worldbook import
codecVars == <<file, written, previous, decoded>>
bookVars == <<source, document, worldBook, original, bookBefore, characterBook, imports>>
editorVars == <<editorData, bookData, aliased, editorForm, bookForm, dirty, steps>>
swapVars == <<pc, disk, new_png, kept, swallowed, swaps>>
listVars == <<listing, rows, stack, current, virtual_count>>
chunkVars == <<at, aggregated, requests, max_passes, stop_requested, stopEnabled, observed>>

vars == <<file, written, previous, call, decoded, ret,
          source, document, worldBook, original, bookBefore, characterBook, imports,
          editorData, bookData, aliased, editorForm, bookForm, dirty, steps,
          pc, disk, new_png, kept, swallowed, swaps,
          listing, rows, stack, current, virtual_count,
          at, aggregated, requests, max_passes, stop_requested, stopEnabled, observed>>

-----------------------------------------------------------------------------
(* Python values *)

PyNone == [none |-> TRUE]
PyBool(b) == [bool |-> b]
PyInt(n) == [int |-> n]
PyStr(s) == [str |-> s]
PyList(xs) == [list |-> xs]
PyDict(items) == [dict |-> items]

\* A float of integral value: n.0
PyFloat(n) == [float |-> n]

\* No value: a name that is not bound
Unbound == [unbound |-> TRUE]

IsNone(x) == "none" \in DOMAIN x
IsBool(x) == "bool" \in DOMAIN x
IsInt(x) == "int" \in DOMAIN x
IsStr(x) == "str" \in DOMAIN x
IsList(x) == "list" \in DOMAIN x
IsDict(x) == "dict" \in DOMAIN x
IsFloat(x) == "float" \in DOMAIN x

\* key in d
HasKey(d, key) == \E i \in 1..Len(d.dict) : d.dict[i][1] = key

KeyIndex(d, key) == CHOOSE i \in 1..Len(d.dict) : d.dict[i][1] = key

\* d[key], for a key that d has
Item(d, key) == d.dict[KeyIndex(d, key)][2]

\* d.get(key, default)
Get(d, key, default) == IF HasKey(d, key) THEN Item(d, key) ELSE default

\* d[key] = value: an existing key keeps its place, a new key goes last
SetItem(d, key, value) ==
    IF HasKey(d, key)
    THEN PyDict([d.dict EXCEPT ![KeyIndex(d, key)] = <<key, value>>])
    ELSE PyDict(Append(d.dict, <<key, value>>))

\* list(d): the keys, in insertion order
Keys(d) == [i \in 1..Len(d.dict) |-> d.dict[i][1]]

\* The outcome of a call: a value returned, or an exception raised
Return(x) == [ok |-> TRUE, value |-> x, err |-> ""]
Raise(e) == [ok |-> FALSE, value |-> PyNone, err |-> e]

-----------------------------------------------------------------------------
(* Text *)

CharAt(s, i) == SubSeq(s, i, i)

\* The characters 32..95 and 97..126, in code order
PrintableLow == " !\"#$%&'()*+,-./0123456789:;<=>?@ABCDEFGHIJKLMNOPQRSTUVWXYZ[\\]^_"
PrintableHigh == "abcdefghijklmnopqrstuvwxyz{|}~"

\* Stands for every character a TLA+ string cannot hold
Unprintable == "?"

Ord == [c \in {CharAt(PrintableLow, i) : i \in 1..Len(PrintableLow)}
               \cup {CharAt(PrintableHigh, i) : i \in 1..Len(PrintableHigh)} |->
          IF \E i \in 1..Len(PrintableLow) : CharAt(PrintableLow, i) = c
          THEN 31 + (CHOOSE i \in 1..Len(PrintableLow) : CharAt(PrintableLow, i) = c)
          ELSE 96 + (CHOOSE i \in 1..Len(PrintableHigh) : CharAt(PrintableHigh, i) = c)]

Chr(n) == IF n \in 32..95 THEN CharAt(PrintableLow, n - 31)
          ELSE IF n \in 97..126 THEN CharAt(PrintableHigh, n - 96)
          ELSE Unprintable

\* The concatenation of the strings parts[lo..hi]
RECURSIVE Join(_, _, _)
Join(parts, lo, hi) ==
    CASE lo > hi -> ""
      [] lo = hi -> parts[lo]
      [] OTHER -> Join(parts, lo, (lo + hi) \div 2) \o Join(parts, (lo + hi) \div 2 + 1, hi)

Digits == "0123456789"
IsDigit(c) == \E i \in 1..10 : CharAt(Digits, i) = c
DigitValue(c) == (CHOOSE i \in 1..10 : CharAt(Digits, i) = c) - 1

-----------------------------------------------------------------------------
(* json.dumps(x), with its defaults: separators ", " and ": ", insertion order *)

RECURSIVE IntToStr(_)
IntToStr(n) ==
    IF n < 0 THEN "-" \o IntToStr(-n)
    ELSE IF n < 10 THEN CharAt(Digits, n + 1)
    ELSE IntToStr(n \div 10) \o CharAt(Digits, (n % 10) + 1)

\* A character of a string literal: the quote and the backslash are escaped
Escape(c) == IF c = "\"" THEN "\\\"" ELSE IF c = "\\" THEN "\\\\" ELSE c

Quoted(s) == "\"" \o Join([i \in 1..Len(s) |-> Escape(CharAt(s, i))], 1, Len(s)) \o "\""

RECURSIVE Dumps(_)
Dumps(x) ==
    CASE IsNone(x) -> "null"
      [] IsBool(x) -> (IF x.bool THEN "true" ELSE "false")
      [] IsInt(x) -> IntToStr(x.int)
      [] IsFloat(x) -> IntToStr(x.float) \o ".0"
      [] IsStr(x) -> Quoted(x.str)
      [] IsList(x) ->
            "[" \o Join([i \in 1..Len(x.list) |->
                            (IF i > 1 THEN ", " ELSE "") \o Dumps(x.list[i])],
                        1, Len(x.list)) \o "]"
      [] IsDict(x) ->
            "{" \o Join([i \in 1..Len(x.dict) |->
                            (IF i > 1 THEN ", " ELSE "") \o Quoted(x.dict[i][1]) \o ": "
                                \o Dumps(x.dict[i][2])],
                        1, Len(x.dict)) \o "}"

-----------------------------------------------------------------------------
(* json.loads(s): Python's scanner, on the text alphabet of the model.     *)
(* A scan returns [ok, val, pos]: the value and the index after it.         *)

ScanFail == [ok |-> FALSE, val |-> PyNone, pos |-> 0]
Scanned(x, p) == [ok |-> TRUE, val |-> x, pos |-> p]

RECURSIVE SkipWs(_, _)
SkipWs(s, i) == IF i <= Len(s) /\ CharAt(s, i) = " " THEN SkipWs(s, i + 1) ELSE i

HexDigits == "0123456789abcdef"
HexUpper == "ABCDEF"
IsHex(c) == \/ \E i \in 1..16 : CharAt(HexDigits, i) = c
            \/ \E i \in 1..6 : CharAt(HexUpper, i) = c
HexValue(c) ==
    IF \E i \in 1..16 : CharAt(HexDigits, i) = c
    THEN (CHOOSE i \in 1..16 : CharAt(HexDigits, i) = c) - 1
    ELSE (CHOOSE i \in 1..6 : CharAt(HexUpper, i) = c) + 9

\* The character an escape at index i (a backslash) stands for, and the index
\* after the escape: [ok, val, pos]
ScanEscape(s, i) ==
    IF i + 1 > Len(s) THEN [ok |-> FALSE, val |-> "", pos |-> 0]
    ELSE LET e == CharAt(s, i + 1) IN
         IF e \in {"\"", "\\", "/"} THEN [ok |-> TRUE, val |-> e, pos |-> i + 2]
         ELSE IF e \in {"b", "f", "n", "r", "t"}
              THEN [ok |-> TRUE, val |-> Unprintable, pos |-> i + 2]
         ELSE IF e = "u" /\ i + 5 <= Len(s)
                 /\ \A j \in (i + 2)..(i + 5) : IsHex(CharAt(s, j))
              THEN [ok |-> TRUE,
                    val |-> Chr(4096 * HexValue(CharAt(s, i + 2))
                                + 256 * HexValue(CharAt(s, i + 3))
                                + 16 * HexValue(CharAt(s, i + 4))
                                + HexValue(CharAt(s, i + 5))),
                    pos |-> i + 6]
         ELSE [ok |-> FALSE, val |-> "", pos |-> 0]

RECURSIVE ScanString(_, _, _, _)

\* py_scanstring after the escape e read at index i
Unescaped(s, i, from, acc, e) ==
    IF ~e.ok THEN [ok |-> FALSE, val |-> "", pos |-> 0]
    ELSE ScanString(s, e.pos, e.pos, acc \o SubSeq(s, from, i - 1) \o e.val)

\* py_scanstring, from the index after the opening quote: acc is the string up
\* to index from, and s[from..i-1] has no quote and no backslash
ScanString(s, i, from, acc) ==
    CASE i > Len(s) -> [ok |-> FALSE, val |-> "", pos |-> 0]
      [] i <= Len(s) /\ CharAt(s, i) = "\"" ->
            [ok |-> TRUE, val |-> acc \o SubSeq(s, from, i - 1), pos |-> i + 1]
      [] i <= Len(s) /\ CharAt(s, i) = "\\" -> Unescaped(s, i, from, acc, ScanEscape(s, i))
      [] OTHER -> ScanString(s, i + 1, from, acc)

\* The digits of an integer literal from index i: the index after the last one
RECURSIVE SkipDigits(_, _)
SkipDigits(s, i) == IF i <= Len(s) /\ IsDigit(CharAt(s, i)) THEN SkipDigits(s, i + 1) ELSE i

RECURSIVE StrToNat(_, _, _)
StrToNat(s, i, j) == IF j < i THEN 0 ELSE 10 * StrToNat(s, i, j - 1) + DigitValue(CharAt(s, j))

\* NUMBER_RE, integer part: (0|[1-9][0-9]*), from index b to index e - 1
ScanDigits(s, b, e) == IF e = b THEN ScanFail ELSE Scanned(PyInt(StrToNat(s, b, e - 1)), e)

ScanNat(s, b) ==
    ScanDigits(s, b, IF b <= Len(s) /\ CharAt(s, b) = "0" THEN b + 1 ELSE SkipDigits(s, b))

Negated(r) == IF r.ok THEN Scanned(PyInt(0 - r.val.int), r.pos) ELSE ScanFail

\* NUMBER_RE, integer part with its sign: -?(0|[1-9][0-9]*).  A fraction or an
\* exponent makes a float, which the model's values do not include.
ScanNumber(s, i) ==
    IF i <= Len(s) /\ CharAt(s, i) = "-" THEN Negated(ScanNat(s, i + 1)) ELSE ScanNat(s, i)

\* dict(pairs): a repeated key keeps its first place and its last value
DictOfPairs(pairs) ==
    LET first == SelectSeq([i \in 1..Len(pairs) |-> i],
                           LAMBDA i : \A j \in 1..(i - 1) : pairs[j][1] # pairs[i][1])
        last(key) == CHOOSE i \in 1..Len(pairs) :
                        /\ pairs[i][1] = key
                        /\ \A j \in (i + 1)..Len(pairs) : pairs[j][1] # key
    IN  PyDict([k \in 1..Len(first) |->
                   <<pairs[first[k]][1], pairs[last(pairs[first[k]][1])][2]>>])

RECURSIVE ScanOnce(_, _)
RECURSIVE ScanArray(_, _, _)
RECURSIVE ScanObject(_, _, _)

\* The str value of a scanned string literal r
StringValue(r) == IF r.ok THEN Scanned(PyStr(r.val), r.pos) ELSE ScanFail

\* One element of an array, scanned as r, with the white space after it:
\* [ok, val, pos], pos the index of the "," or "]" that follows
ScanElement(s, r) ==
    IF r.ok /\ SkipWs(s, r.pos) <= Len(s) THEN Scanned(r.val, SkipWs(s, r.pos))
    ELSE ScanFail

\* JSONArray after the element m, acc the elements before it: "]" ends the
\* array, "," goes on to the next element
ScanArray(s, acc, m) ==
    CASE m.ok /\ CharAt(s, m.pos) = "]" -> Scanned(PyList(Append(acc, m.val)), m.pos + 1)
      [] m.ok /\ CharAt(s, m.pos) = "," ->
            ScanArray(s, Append(acc, m.val),
                      ScanElement(s, ScanOnce(s, SkipWs(s, m.pos + 1))))
      [] OTHER -> ScanFail

\* The value of a member with key `key`, scanned as r, with the white space
\* after it: [ok, val, pos], val the pair and pos the index of the "," or "}"
MemberValue(s, key, r) ==
    IF r.ok /\ SkipWs(s, r.pos) <= Len(s) THEN Scanned(<<key, r.val>>, SkipWs(s, r.pos))
    ELSE ScanFail

\* One member of an object, after its key scanned as key: the ":" and the value
ScanMember(s, key) ==
    IF key.ok /\ SkipWs(s, key.pos) <= Len(s) /\ CharAt(s, SkipWs(s, key.pos)) = ":"
    THEN MemberValue(s, key.val, ScanOnce(s, SkipWs(s, SkipWs(s, key.pos) + 1)))
    ELSE ScanFail

\* The member whose key has its opening quote at index q
MemberAt(s, q) ==
    IF q <= Len(s) /\ CharAt(s, q) = "\"" THEN ScanMember(s, ScanString(s, q + 1, q + 1, ""))
    ELSE ScanFail

\* JSONObject after the member m, acc the pairs before it: "}" ends the
\* object, "," goes on to the next member
ScanObject(s, acc, m) ==
    CASE m.ok /\ CharAt(s, m.pos) = "}" ->
            Scanned(DictOfPairs(Append(acc, m.val)), m.pos + 1)
      [] m.ok /\ CharAt(s, m.pos) = "," ->
            ScanObject(s, Append(acc, m.val), MemberAt(s, SkipWs(s, m.pos + 1)))
      [] OTHER -> ScanFail

\* The literal word at index i, of value x
Literal(s, i, word, x) ==
    IF i + Len(word) - 1 <= Len(s) /\ SubSeq(s, i, i + Len(word) - 1) = word
    THEN Scanned(x, i + Len(word)) ELSE ScanFail

\* s has character c at the first index after the white space from index i
NextIs(s, i, c) == SkipWs(s, i) <= Len(s) /\ CharAt(s, SkipWs(s, i)) = c

\* scan_once(s, idx)
ScanOnce(s, i) ==
    CASE i > Len(s) -> ScanFail
      [] i <= Len(s) /\ CharAt(s, i) = "\"" -> StringValue(ScanString(s, i + 1, i + 1, ""))
      [] i <= Len(s) /\ CharAt(s, i) = "{" /\ NextIs(s, i + 1, "}") ->
            Scanned(PyDict(<<>>), SkipWs(s, i + 1) + 1)
      [] i <= Len(s) /\ CharAt(s, i) = "{" /\ ~NextIs(s, i + 1, "}") ->
            ScanObject(s, <<>>, MemberAt(s, SkipWs(s, i + 1)))
      [] i <= Len(s) /\ CharAt(s, i) = "[" /\ NextIs(s, i + 1, "]") ->
            Scanned(PyList(<<>>), SkipWs(s, i + 1) + 1)
      [] i <= Len(s) /\ CharAt(s, i) = "[" /\ ~NextIs(s, i + 1, "]") ->
            ScanArray(s, <<>>, ScanElement(s, ScanOnce(s, SkipWs(s, i + 1))))
      [] i <= Len(s) /\ CharAt(s, i) = "n" -> Literal(s, i, "null", PyNone)
      [] i <= Len(s) /\ CharAt(s, i) = "t" -> Literal(s, i, "true", PyBool(TRUE))
      [] i <= Len(s) /\ CharAt(s, i) = "f" -> Literal(s, i, "false", PyBool(FALSE))
      [] OTHER -> ScanNumber(s, i)

\* The value of a document scanned as r: nothing but white space may follow it
Document(s, r) ==
    IF r.ok /\ SkipWs(s, r.pos) = Len(s) + 1 THEN Return(r.val)
    ELSE Raise("JSONDecodeError")

\* JSONDecoder.decode: one value, white space around it, nothing after it
Loads(s) == Document(s, ScanOnce(s, SkipWs(s, 1)))

-----------------------------------------------------------------------------
(* str.encode('utf-8') and bytes.decode('utf-8'); bytes are sequences of 0..255 *)

Utf8Encode(s) == [i \in 1..Len(s) |-> Ord[CharAt(s, i)]]

IsCont(bytes, i) == i <= Len(bytes) /\ bytes[i] \in 128..191

\* The length of the well-formed UTF-8 sequence that starts at index i, or 0
Utf8SeqLen(bytes, i) ==
    LET b == bytes[i]
        second(lo, hi) == i + 1 <= Len(bytes) /\ bytes[i + 1] \in lo..hi
    IN  IF b < 128 THEN 1
        ELSE IF b \in 194..223 THEN (IF IsCont(bytes, i + 1) THEN 2 ELSE 0)
        ELSE IF b \in 224..239
             THEN (IF /\ second(IF b = 224 THEN 160 ELSE 128, IF b = 237 THEN 159 ELSE 191)
                      /\ IsCont(bytes, i + 2)
                   THEN 3 ELSE 0)
        ELSE IF b \in 240..244
             THEN (IF /\ second(IF b = 240 THEN 144 ELSE 128, IF b = 244 THEN 143 ELSE 191)
                      /\ IsCont(bytes, i + 2) /\ IsCont(bytes, i + 3)
                   THEN 4 ELSE 0)
        ELSE 0

\* [ok, text].  The bytes are well formed when every byte that is no continuation
\* byte starts a well-formed sequence and every continuation byte lies in one; a
\* character outside the text alphabet decodes to Unprintable.
Utf8Decode(bytes) ==
    LET n == Len(bytes)
        lead(i) == bytes[i] \notin 128..191
        covered(i) == \E j \in 1..(i - 1) :
                          j >= i - 3 /\ lead(j) /\ Utf8SeqLen(bytes, j) > i - j
        valid == \A i \in 1..n :
                     IF lead(i) THEN Utf8SeqLen(bytes, i) > 0 ELSE covered(i)
        leads == SelectSeq(bytes, LAMBDA b : b \notin 128..191)
        chars == [i \in 1..Len(leads) |->
                     IF leads[i] < 128 THEN Chr(leads[i]) ELSE Unprintable]
    IN  IF valid THEN [ok |-> TRUE, text |-> Join(chars, 1, Len(leads))]
        ELSE [ok |-> FALSE, text |-> ""]

-----------------------------------------------------------------------------
(* base64.b64encode and base64.b64decode (validate=False: binascii.a2b_base64, *)
(* not strict)                                                                 *)

B64Alphabet == "ABCDEFGHIJKLMNOPQRSTUVWXYZabcdefghijklmnopqrstuvwxyz0123456789+/"
B64Char(n) == CharAt(B64Alphabet, n + 1)
B64Pad == 61

\* table_a2b_base64: the 6 bits of an alphabet byte, 64 for any other byte
B64Value(b) ==
    IF b \in 65..90 THEN b - 65
    ELSE IF b \in 97..122 THEN b - 71
    ELSE IF b \in 48..57 THEN b + 4
    ELSE IF b = 43 THEN 62
    ELSE IF b = 47 THEN 63
    ELSE 64

\* The four characters of the g-th group of three bytes, padded in a last
\* group of one or two
B64Group(bytes, g) ==
    LET i == 3 * g - 2
        n == Len(bytes) - i + 1
    IN  IF n = 1
        THEN B64Char(bytes[i] \div 4) \o B64Char((bytes[i] % 4) * 16) \o "=="
        ELSE IF n = 2
        THEN B64Char(bytes[i] \div 4)
                \o B64Char((bytes[i] % 4) * 16 + bytes[i + 1] \div 16)
                \o B64Char((bytes[i + 1] % 16) * 4) \o "="
        ELSE B64Char(bytes[i] \div 4)
                \o B64Char((bytes[i] % 4) * 16 + bytes[i + 1] \div 16)
                \o B64Char((bytes[i + 1] % 16) * 4 + bytes[i + 2] \div 64)
                \o B64Char(bytes[i + 2] % 64)

\* b64encode(b).decode('utf-8'): the encoding as text
B64Encode(bytes) ==
    LET groups == (Len(bytes) + 2) \div 3
    IN  Join([g \in 1..groups |-> B64Group(bytes, g)], 1, groups)

\* a2b_base64, not strict.  The loop keeps quad_pos, the alphabet bytes read
\* modulo 4, and pads, the pads read since the last alphabet byte while
\* quad_pos >= 2.  A byte outside the alphabet is skipped; the pad that makes
\* quad_pos + pads reach 4 ends the input, whatever follows; input that ends
\* inside a quad is an error.  [ok, bytes]
B64Decode(data) ==
    LET n == Len(data)
        alpha(b) == B64Value(b) < 64
        padAt == {i \in 1..n : data[i] = B64Pad}
        before(i) == Len(SelectSeq(SubSeq(data, 1, i - 1), alpha))
        quad_pos(i) == before(i) % 4
        pads(i) == Cardinality({j \in padAt : j <= i /\ before(j) = before(i)})
        ends == {i \in padAt : quad_pos(i) >= 2 /\ quad_pos(i) + pads(i) >= 4}
        stop == IF ends = {} THEN n + 1 ELSE CHOOSE i \in ends : \A j \in ends : i <= j
        read == SelectSeq(SubSeq(data, 1, stop - 1), alpha)
        m == Len(read)
        six(k) == B64Value(read[k])
        byte(j) ==
            LET q == 4 * ((j - 1) \div 3)
                r == (j - 1) % 3
            IN  IF r = 0 THEN six(q + 1) * 4 + six(q + 2) \div 16
                ELSE IF r = 1 THEN (six(q + 2) % 16) * 16 + six(q + 3) \div 4
                ELSE (six(q + 3) % 4) * 64 + six(q + 4)
        count == 3 * (m \div 4) + (IF m % 4 = 3 THEN 2 ELSE IF m % 4 = 2 THEN 1 ELSE 0)
    IN  IF ends = {} /\ m % 4 # 0 THEN [ok |-> FALSE, bytes |-> <<>>]
        ELSE [ok |-> TRUE, bytes |-> [j \in 1..count |-> byte(j)]]

-----------------------------------------------------------------------------
(* Card data scaffolding *)

base ==
    PyDict(<<
        <<"spec", PyStr("chara_card_v2")>>,
        <<"spec_version", PyStr("2.0")>>,
        <<"data", PyDict(<<
            <<"name", PyStr("")>>,
            <<"description", PyStr("")>>,
            <<"personality", PyStr("")>>,
            <<"scenario", PyStr("")>>,
            <<"first_mes", PyStr("")>>,
            <<"mes_example", PyStr("")>>,
            <<"creator_notes", PyStr("")>>,
            <<"system_prompt", PyStr("")>>,
            <<"post_history_instructions", PyStr("")>>,
            <<"alternate_greetings", PyList(<<>>)>>,
            <<"tags", PyList(<<>>)>>,
            <<"creator", PyStr("")>>,
            <<"character_version", PyStr("")>>,
            <<"extensions", PyDict(<<>>)>> >>)>> >>)

deep_empty_card == Loads(Dumps(base)).value

-----------------------------------------------------------------------------
(* read_character, lines 132-144: the decoded value made a V2 card *)

\* s in t, for two strings
RECURSIVE SubstringFrom(_, _, _)
SubstringFrom(s, t, i) ==
    IF i + Len(s) - 1 > Len(t) THEN FALSE
    ELSE IF SubSeq(t, i, i + Len(s) - 1) = s THEN TRUE
    ELSE SubstringFrom(s, t, i + 1)

\* `key in x`: a bool returned, or TypeError for a value that is no container
Contains(x, key) ==
    CASE IsDict(x) -> Return(PyBool(HasKey(x, key)))
      [] IsStr(x)  -> Return(PyBool(SubstringFrom(key, x.str, 1)))
      [] IsList(x) -> Return(PyBool(\E i \in 1..Len(x.list) : x.list[i] = PyStr(key)))
      [] OTHER     -> Raise("TypeError")

\* x[key] for a str key: only a dict takes one
Subscript(x, key) ==
    IF ~IsDict(x) THEN Raise("TypeError")
    ELSE IF ~HasKey(x, key) THEN Raise("KeyError")
    ELSE Return(Item(x, key))

\* What `for entry in x` iterates: the elements of a list, the keys of a dict,
\* the characters of a str; TypeError for any other value
Iterate(x) ==
    CASE IsList(x) -> Return(x)
      [] IsDict(x) -> Return(PyList([i \in 1..Len(x.dict) |-> PyStr(Keys(x)[i])]))
      [] IsStr(x)  -> Return(PyList([i \in 1..Len(x.str) |-> PyStr(CharAt(x.str, i))]))
      [] OTHER     -> Raise("TypeError")

\* A variant of lines 142-143 that looks only for an absent secondary_keys
FixEntryAbsent(entry) ==
    IF ~IsDict(entry) THEN Raise("AttributeError")
    ELSE IF ~HasKey(entry, "secondary_keys")
         THEN Return(SetItem(entry, "secondary_keys", PyList(<<>>)))
    ELSE Return(entry)

\* Lines 142-143 on one entry
FixEntry(entry) ==
    IF ~IsDict(entry) THEN Raise("AttributeError")
    ELSE IF ~IsList(Get(entry, "secondary_keys", PyNone))
         THEN Return(SetItem(entry, "secondary_keys", PyList(<<>>)))
    ELSE Return(entry)

\* Lines 141-143: the loop over what `entries` iterates; the first element that
\* is no dict raises
FixEntries(xs) ==
    IF \E i \in 1..Len(xs) : ~IsDict(xs[i]) THEN Raise("AttributeError")
    ELSE Return(PyList([i \in 1..Len(xs) |-> FixEntry(xs[i]).value]))

\* Lines 141-143 done: the entries of a list were changed in place; a dict or a
\* str that the loop got through is empty and stays what it is
StoreEntries(d, book, entries, fixed) ==
    IF ~fixed.ok THEN fixed
    ELSE IF IsList(entries)
         THEN Return(SetItem(d, "character_book", SetItem(book, "entries", fixed.value)))
    ELSE Return(d)

\* Line 141: the iteration of book["entries"]
FixIterated(d, book, entries, it) ==
    IF ~it.ok THEN it ELSE StoreEntries(d, book, entries, FixEntries(it.value.list))

\* Line 141: book["entries"]
FixSubscripted(d, book, entries) ==
    IF ~entries.ok THEN entries
    ELSE FixIterated(d, book, entries.value, Iterate(entries.value))

\* Line 140, second operand: "entries" in book
FixContained(d, book, has) ==
    IF ~has.ok THEN has
    ELSE IF ~has.value.bool THEN Return(d)
    ELSE FixSubscripted(d, book, Subscript(book, "entries"))

\* Lines 140-143 on data["data"]
FixBook(d) ==
    IF ~HasKey(d, "character_book") THEN Return(d)
    ELSE FixContained(d, Item(d, "character_book"),
                      Contains(Item(d, "character_book"), "entries"))

\* A variant of lines 136-137 that leaves tags as it is
KeepTags(d) == d

\* Lines 136-137 on data["data"]
FixTags(d) ==
    IF ~IsList(Get(d, "tags", PyList(<<>>))) THEN SetItem(d, "tags", PyList(<<>>)) ELSE d

\* Lines 138-139 on data["data"]
FixGreetings(d) ==
    IF ~IsList(Get(d, "alternate_greetings", PyList(<<>>)))
    THEN SetItem(d, "alternate_greetings", PyList(<<>>)) ELSE d

\* Lines 136-139 on data["data"]
FixSequences(d) == FixGreetings(FixTags(d))

\* Lines 132-135
Wrap(data) ==
    IF Get(data, "spec", PyNone) # PyStr("chara_card_v2")
    THEN SetItem(deep_empty_card, "data", data)
    ELSE data

\* Line 144: the card with its data as lines 136-143 left it
Fixed(card, d) == IF d.ok THEN Return(SetItem(card, "data", d.value)) ELSE d

\* Lines 136-144 on the card of lines 132-135
FixCard(card) ==
    IF ~HasKey(card, "data") THEN Raise("KeyError")
    ELSE IF ~IsDict(Item(card, "data")) THEN Raise("AttributeError")
    ELSE Fixed(card, FixBook(FixSequences(Item(card, "data"))))

\* Lines 132-144
Normalize(data) == IF ~IsDict(data) THEN Raise("AttributeError") ELSE FixCard(Wrap(data))

-----------------------------------------------------------------------------
(* The file and the two codec functions *)

\* image.text.get(key): of the text chunks with this key, the last one read
TextGet(text, key) ==
    IF \E i \in 1..Len(text) : text[i].key = key
    THEN PyStr(text[CHOOSE i \in 1..Len(text) :
                      /\ text[i].key = key
                      /\ \A j \in (i + 1)..Len(text) : text[j].key # key].value)
    ELSE PyNone

\* Lines 130-144: the outcome of json.loads, and the card made of its value
ReadData(data) ==
    IF ~data.ok THEN [decoded |-> Unbound, ret |-> data]
    ELSE [decoded |-> data.value, ret |-> Normalize(data.value)]

\* Lines 129-144, json_str the outcome of decode('utf-8')
ReadStr(json_str) ==
    IF ~json_str.ok THEN [decoded |-> Unbound, ret |-> Raise("UnicodeDecodeError")]
    ELSE ReadData(Loads(json_str.text))

\* A variant of lines 128-144 that takes bytes it cannot decode for no card
ReadBytesDefault(json_bytes) ==
    IF ~json_bytes.ok THEN [decoded |-> Unbound, ret |-> Return(deep_empty_card)]
    ELSE ReadStr(Utf8Decode(json_bytes.bytes))

\* Lines 128-144, json_bytes the outcome of b64decode
ReadBytes(json_bytes) ==
    IF ~json_bytes.ok THEN [decoded |-> Unbound, ret |-> Raise("binascii.Error")]
    ELSE ReadStr(Utf8Decode(json_bytes.bytes))

\* A variant of lines 125-144 that requires the "chara" entry
ReadCommentRequired(user_comment) ==
    IF user_comment = PyNone THEN [decoded |-> Unbound, ret |-> Raise("KeyError")]
    ELSE ReadBytes(B64Decode(Utf8Encode(user_comment.str)))

\* Lines 125-144
ReadComment(user_comment) ==
    IF user_comment = PyNone THEN [decoded |-> Unbound, ret |-> Return(deep_empty_card)]
    ELSE ReadBytes(B64Decode(Utf8Encode(user_comment.str)))

\* read_character(path) on file f: what json.loads returned, and the outcome
read_character(f) ==
    IF f.format # "PNG" THEN [decoded |-> Unbound, ret |-> Raise("SyntaxError")]
    ELSE ReadComment(TextGet(f.text, "chara"))

\* A variant of write_character that stores the JSON text itself
write_character_plain(f, data) ==
    IF f.format = "none"
    THEN [file |-> f, ret |-> Raise("UnidentifiedImageError")]
    ELSE [file |-> [format |-> "PNG",
                    text |-> <<[key |-> "chara", value |-> Dumps(data)]>>],
          ret |-> Return(PyNone)]

\* A variant of write_character that adds its entry to the text entries of the file
write_character_append(f, data) ==
    IF f.format = "none"
    THEN [file |-> f, ret |-> Raise("UnidentifiedImageError")]
    ELSE [file |-> [format |-> "PNG",
                    text |-> Append(f.text, [key |-> "chara",
                                             value |-> B64Encode(Utf8Encode(Dumps(data)))])],
          ret |-> Return(PyNone)]

\* write_character(path, data) on file f: the file afterwards, and the outcome
write_character(f, data) ==
    LET json_str == Dumps(data)
        base64_str == B64Encode(Utf8Encode(json_str))
    IN  IF f.format = "none"
        THEN [file |-> f, ret |-> Raise("UnidentifiedImageError")]
        ELSE [file |-> [format |-> "PNG",
                        text |-> <<[key |-> "chara", value |-> base64_str]>>],
              ret |-> Return(PyNone)]

-----------------------------------------------------------------------------
(* The inputs: what the "chara" entry of a file on disk may hold *)

\* The longest `entries` list of an input
MaxEntries == 2

EntryPlain == PyDict(<< <<"keys", PyList(<<PyStr("k")>>)>>, <<"content", PyStr("c")>> >>)
EntryKeyed ==
    PyDict(<< <<"keys", PyList(<<PyStr("k")>>)>>,
              <<"secondary_keys", PyList(<<PyStr("s")>>)>>,
              <<"id", PyInt(1)>> >>)
EntryBadKeys == PyDict(<< <<"secondary_keys", PyStr("s")>>, <<"content", PyStr("c")>> >>)

\* What an `entries` list may hold: entries, and values that are no entries
EntryInputs == {EntryPlain, EntryKeyed, EntryBadKeys, PyStr("x"), PyInt(5)}

EntriesInputs ==
    {PyList(xs) : xs \in UNION {[1..n -> EntryInputs] : n \in 0..MaxEntries}}
        \cup {PyDict(<<>>),
              PyDict(<< <<"0", EntryPlain>>, <<"1", EntryKeyed>> >>),
              PyStr(""), PyStr("ab"), PyNone}

BookInputs ==
    {PyDict(<< <<"name", PyStr("B")>>, <<"entries", e>> >>) : e \in EntriesInputs}
        \cup {PyDict(<<>>), PyDict(<< <<"name", PyStr("B")>> >>), PyNone, PyInt(5),
              PyStr("lore"), PyStr("my entries"), PyList(<<PyStr("entries")>>)}

TagInputs ==
    {Unbound, PyList(<<PyStr("t1"), PyStr("t2")>>), PyStr("not-an-array"), PyNone,
     PyDict(<<>>)}
AltInputs == {Unbound, PyList(<<PyStr("hi")>>), PyStr("x")}

\* A dict of the items whose value is bound
DictOf(items) == PyDict(SelectSeq(items, LAMBDA it : it[2] # Unbound))

\* The flat character objects: known fields and one unknown field
PayloadInputs ==
    {DictOf(<< <<"name", PyStr("Foo")>>, <<"tags", t>>, <<"alternate_greetings", a>> >>) :
        t \in TagInputs, a \in AltInputs}
    \cup {DictOf(<< <<"name", PyStr("Foo")>>, <<"character_book", b>>, <<"zz", PyInt(1)>> >>) :
            b \in BookInputs}
    \cup {PyDict(<<>>),
          DictOf(<< <<"tags", PyStr("t")>>,
                    <<"character_book", PyDict(<< <<"entries", PyList(<<EntryBadKeys>>)>> >>)>> >>)}

V2(d) ==
    PyDict(<< <<"spec", PyStr("chara_card_v2")>>, <<"spec_version", PyStr("2.0")>>,
              <<"data", d>> >>)

\* The documents json.loads may return
DocInputs ==
    PayloadInputs
    \cup {PyDict(<< <<"spec", PyStr("chara_card_v1")>> >> \o p.dict) : p \in PayloadInputs}
    \cup {V2(p) : p \in PayloadInputs}
    \cup {V2(x) : x \in {PyList(<<>>), PyStr("Foo"), PyInt(5), PyNone}}
    \cup {PyDict(<< <<"spec", PyStr("chara_card_v2")>> >>),
          PyDict(<< <<"spec", PyInt(2)>>, <<"name", PyStr("Foo")>> >>)}
    \cup {PyList(<<>>), PyList(<<PyInt(1)>>), PyStr("chara_card_v2"), PyInt(5),
          PyBool(TRUE), PyNone}

\* The text write_character stores for a value
Encoded(x) == B64Encode(Utf8Encode(Dumps(x)))

\* Texts that are no encoding of a document, or not the one write_character makes.
\* "e30=" is the encoding of {}.
OtherTexts ==
    {"", "!!!!", "e30", "Z", "{\"name\": \"Foo\"}",
     "/w==", "ww==", "w6k=",
     B64Encode(Utf8Encode("{\"a\": 1")), B64Encode(Utf8Encode("{}x")),
     B64Encode(Utf8Encode(" { \"name\" :\"Foo\" } ")),
     "e30=!", "e3 0=", "e30=e30", "=e30="}

TextInputs == {Encoded(x) : x \in DocInputs} \cup OtherTexts

Chunk(key, value) == [key |-> key, value |-> value]

FileInputs ==
    {[format |-> "PNG", text |-> <<Chunk("chara", t)>>] : t \in TextInputs}
    \cup {[format |-> "PNG", text |-> <<>>],
          [format |-> "PNG", text |-> <<Chunk("Comment", "e30=")>>],
          [format |-> "PNG", text |-> <<Chunk("chara", "e30"), Chunk("Comment", "x"),
                                        Chunk("chara", Encoded(V2(PyDict(<<>>))))>>],
          [format |-> "PNG", text |-> <<Chunk("chara", "e30="), Chunk("chara", "e30")>>],
          [format |-> "JPEG", text |-> <<>>],
          [format |-> "none", text |-> <<>>]}

\* Cards of the documented shape, as an editor hands them to write_character
FullCard ==
    LET entries == PyList(<<
            PyDict(<< <<"keys", PyList(<<PyStr("k1"), PyStr("k2")>>)>>,
                      <<"content", PyStr("lore \"quoted\"")>>,
                      <<"extensions", PyDict(<<>>)>>, <<"enabled", PyBool(TRUE)>>,
                      <<"insertion_order", PyInt(0)>> >>),
            PyDict(<< <<"keys", PyList(<<>>)>>, <<"content", PyStr("")>>,
                      <<"extensions", PyDict(<< <<"depth", PyInt(4)>> >>)>>,
                      <<"enabled", PyBool(FALSE)>>, <<"insertion_order", PyInt(10)>>,
                      <<"selective", PyBool(TRUE)>>,
                      <<"secondary_keys", PyList(<<PyStr("s")>>)>>,
                      <<"position", PyStr("before_char")>> >>) >>)
        book == PyDict(<< <<"name", PyStr("Book")>>, <<"scan_depth", PyInt(2)>>,
                          <<"extensions", PyDict(<<>>)>>, <<"entries", entries>> >>)
        d0 == Item(deep_empty_card, "data")
        d1 == SetItem(d0, "name", PyStr("Fo\"o\\ /bar"))
        d2 == SetItem(d1, "tags", PyList(<<PyStr("a"), PyStr("b")>>))
        d3 == SetItem(d2, "alternate_greetings", PyList(<<PyStr("hi")>>))
        d4 == SetItem(d3, "extensions",
                      PyDict(<< <<"x", PyList(<<PyInt(1), PyNone, PyBool(TRUE)>>)>> >>))
    IN  SetItem(deep_empty_card, "data", SetItem(d4, "character_book", book))

CardInputs == {deep_empty_card, FullCard}

-----------------------------------------------------------------------------
(* The calls *)

\* No editor is open
NoEditor ==
    /\ editorData = Unbound
    /\ bookData = Unbound
    /\ aliased = TRUE
    /\ editorForm = Unbound
    /\ bookForm = Unbound
    /\ dirty = FALSE
    /\ steps = 0

\* No image is being changed
NoSwap ==
    /\ pc = "idle"
    /\ disk = Unbound
    /\ new_png = Unbound
    /\ kept = Unbound
    /\ swallowed = FALSE
    /\ swaps = 0

\* No card list is shown
NoList ==
    /\ listing = <<>>
    /\ rows = <<>>
    /\ stack = <<>>
    /\ current = 0
    /\ virtual_count = 0

\* No generation is running: AIAssistWidget as constructed (lines 726, 766, 809)
NoChunk ==
    /\ at = "idle"
    /\ aggregated = ""
    /\ requests = 0
    /\ max_passes = 1
    /\ stop_requested = FALSE
    /\ stopEnabled = FALSE
    /\ observed = FALSE

Init ==
    /\ file \in FileInputs
    /\ written = Unbound
    /\ previous = Unbound
    /\ call = "none"
    /\ decoded = Unbound
    /\ ret = Return(PyNone)
    /\ source = Unbound
    /\ document = Unbound
    /\ worldBook = Unbound
    /\ original = Unbound
    /\ bookBefore = Unbound
    /\ characterBook = Unbound
    /\ imports = 0
    /\ NoEditor
    /\ NoSwap
    /\ NoList
    /\ NoChunk

ReadCharacter ==
    \E r \in {read_character(file)} :
        /\ call' = "read_character"
        /\ decoded' = r.decoded
        /\ ret' = r.ret
        /\ UNCHANGED <<file, written, previous>>
        /\ UNCHANGED <<bookVars, editorVars, swapVars, listVars, chunkVars>>

\* The editor saves the card it holds: a card it made, or the card it read
WriteCharacter ==
    \E data \in CardInputs \cup
                (IF call = "read_character" /\ ret.ok THEN {ret.value} ELSE {}) :
        \E w \in {write_character(file, data)} :
            /\ call' = "write_character"
            /\ file' = w.file
            /\ written' = IF w.ret.ok THEN data ELSE written
            /\ previous' = IF w.ret.ok THEN written ELSE previous
            /\ decoded' = Unbound
            /\ ret' = w.ret
            /\ UNCHANGED <<bookVars, editorVars, swapVars, listVars, chunkVars>>

Next == ReadCharacter \/ WriteCharacter

Spec == Init /\ [][Next]_vars

-----------------------------------------------------------------------------
(* The worldbook import: process_worldbook and import_worldbook *)

\* list(d.values()): the values, in insertion order
Values(d) == [i \in 1..Len(d.dict) |-> d.dict[i][2]]

\* del d[key], for a key that d has
DelItem(d, key) == PyDict(SelectSeq(d.dict, LAMBDA it : it[1] # key))

\* The number a bool or an int compares as: True is 1 and False is 0
Num(x) ==
    IF IsBool(x) THEN (IF x.bool THEN 1 ELSE 0) ELSE IF IsFloat(x) THEN x.float ELSE x.int

\* a == b on two values json.load made: numbers by their value, whatever their
\* type; lists element by element; dicts key by key, whatever the order
RECURSIVE PyEq(_, _)
PyEq(a, b) ==
    CASE (IsBool(a) \/ IsInt(a) \/ IsFloat(a)) /\ (IsBool(b) \/ IsInt(b) \/ IsFloat(b)) ->
            Num(a) = Num(b)
      [] IsList(a) /\ IsList(b) ->
            /\ Len(a.list) = Len(b.list)
            /\ \A i \in 1..Len(a.list) : PyEq(a.list[i], b.list[i])
      [] IsDict(a) /\ IsDict(b) ->
            /\ Len(a.dict) = Len(b.dict)
            /\ \A i \in 1..Len(a.dict) :
                  /\ HasKey(b, a.dict[i][1])
                  /\ PyEq(a.dict[i][2], Item(b, a.dict[i][1]))
      [] OTHER -> a = b

\* A variant of lines 222-223 that drops every `entry` field
StripEntryAlways(entry) ==
    CASE IsDict(entry) ->
            IF HasKey(entry, "entry") THEN Return(DelItem(entry, "entry"))
            ELSE Return(entry)
      [] IsStr(entry) ->
            IF SubstringFrom("entry", entry.str, 1) THEN Raise("AttributeError")
            ELSE Return(entry)
      [] IsList(entry) ->
            IF \E i \in 1..Len(entry.list) : entry.list[i] = PyStr("entry")
            THEN Raise("AttributeError") ELSE Return(entry)
      [] OTHER -> Raise("TypeError")

\* Lines 222-223 on one entry: the entry afterwards.  `"entry" in entry` is a
\* key of a dict, a substring of a str, an element of a list, and TypeError on
\* any other value; entry.get is AttributeError on a value that is no dict
StripEntry(entry) ==
    CASE IsDict(entry) ->
            IF /\ HasKey(entry, "entry")
               /\ PyEq(Get(entry, "content", PyNone), Get(entry, "entry", PyNone))
            THEN Return(DelItem(entry, "entry"))
            ELSE Return(entry)
      [] IsStr(entry) ->
            IF SubstringFrom("entry", entry.str, 1) THEN Raise("AttributeError")
            ELSE Return(entry)
      [] IsList(entry) ->
            IF \E i \in 1..Len(entry.list) : entry.list[i] = PyStr("entry")
            THEN Raise("AttributeError") ELSE Return(entry)
      [] OTHER -> Raise("TypeError")

\* Lines 221-223: the loop over what data["entries"] iterates; the first
\* element the body fails on raises
StripEntries(xs) ==
    IF \E i \in 1..Len(xs) : ~StripEntry(xs[i]).ok
    THEN StripEntry(xs[CHOOSE i \in 1..Len(xs) :
                          /\ ~StripEntry(xs[i]).ok
                          /\ \A j \in 1..(i - 1) : StripEntry(xs[j]).ok])
    ELSE Return(PyList([i \in 1..Len(xs) |-> StripEntry(xs[i]).value]))

\* Line 224: the entries of a list were changed in place; a str that the loop
\* got through stays what it is
StrippedBook(data, stripped) ==
    IF ~stripped.ok THEN stripped
    ELSE IF IsList(Item(data, "entries"))
         THEN Return(SetItem(data, "entries", stripped.value))
    ELSE Return(data)

\* Line 221: the iteration of data["entries"]
StripIterated(data, it) ==
    IF ~it.ok THEN it ELSE StrippedBook(data, StripEntries(it.value.list))

\* Lines 218-220: entries given as a dict become the list of its values
ListEntries(data) ==
    IF IsDict(Item(data, "entries"))
    THEN SetItem(data, "entries", PyList(Values(Item(data, "entries"))))
    ELSE data

\* Lines 218-224, for data with "entries"
StripBook(data) == StripIterated(data, Iterate(Item(data, "entries")))

\* Lines 215-216, `has` the outcome of "character_book" in data["data"]
NestedIn(d, has) ==
    IF ~has.ok THEN has
    ELSE IF ~has.value.bool THEN Return(PyNone)
    ELSE Subscript(d, "character_book")

\* A variant of lines 214-217 that takes no card for a worldbook
NestedBookNone(data) == Return(PyNone)

\* Lines 214-217, for a dict without "entries": the book of a V2 card, or None
NestedBook(data) ==
    IF /\ HasKey(data, "spec")
       /\ PyEq(Item(data, "spec"), PyStr("chara_card_v2"))
       /\ HasKey(data, "data")
    THEN NestedIn(Item(data, "data"), Contains(Item(data, "data"), "character_book"))
    ELSE Return(PyNone)

\* process_worldbook(data): the value returned, or the error raised
process_worldbook(data) ==
    IF ~IsDict(data) THEN Return(PyNone)
    ELSE IF ~HasKey(data, "entries") THEN NestedBook(data)
    ELSE StripBook(ListEntries(data))

\* Lines 221-223 as far as they get: the entries before the first one the body
\* fails on are changed in place, the others are as they were
StripPrefix(xs) ==
    [i \in 1..Len(xs) |->
        IF \A j \in 1..i : StripEntry(xs[j]).ok THEN StripEntry(xs[i]).value ELSE xs[i]]

\* Lines 221-223 on the argument after lines 218-220: a list is changed in place
MutatedEntries(data) ==
    IF IsList(Item(data, "entries"))
    THEN SetItem(data, "entries", PyList(StripPrefix(Item(data, "entries").list)))
    ELSE data

\* A variant of process_worldbook that works on a copy of its argument
Unmutated(data) == data

\* The argument of process_worldbook after the call, whether it returned or
\* raised: lines 219-220 and 223 assign into it and delete from it
Mutated(data) ==
    IF ~IsDict(data) THEN data
    ELSE IF ~HasKey(data, "entries") THEN data
    ELSE MutatedEntries(ListEntries(data))

\* A step of import_worldbook: characterBook as the step leaves it, and the
\* value the function returns if it ends there, or the error raised
Step(book) == [book |-> book, ret |-> Return(book)]
Fail(book, e) == [book |-> book, ret |-> Raise(e)]

\* A variant of lines 228-230 and 231-233 where the worldbook's text wins
AdoptAlways(book, world, f) ==
    IF Get(world, f, PyStr("")) = PyStr("") THEN Step(book)
    ELSE IF ~IsDict(book) THEN Fail(book, "AttributeError")
    ELSE Step(SetItem(book, f, Get(world, f, PyStr(""))))

\* Lines 228-230 (f = "description") and 231-233 (f = "name"), world a dict:
\* characterBook.get is reached only when the worldbook's text is not ""
Adopt(book, world, f) ==
    IF Get(world, f, PyStr("")) = PyStr("") THEN Step(book)
    ELSE IF ~IsDict(book) THEN Fail(book, "AttributeError")
    ELSE IF Get(book, f, PyStr("")) = PyStr("")
         THEN Step(SetItem(book, f, Get(world, f, PyStr(""))))
    ELSE Step(book)

\* Line 235, target += operand: a list is extended by what the operand
\* iterates, a str takes a str, and the other pairs of a list, a dict, a str
\* and None are TypeError (numbers are not among the inputs)
IAdd(target, operand) ==
    CASE IsList(target) /\ (IsList(operand) \/ IsDict(operand) \/ IsStr(operand)) ->
            Return(PyList(target.list \o Iterate(operand).value.list))
      [] IsStr(target) /\ IsStr(operand) -> Return(PyStr(target.str \o operand.str))
      [] OTHER -> Raise("TypeError")

\* Line 235 done: the sum is stored, or the error leaves the book of line 234
Added(book, sum) ==
    IF ~sum.ok THEN Fail(book, sum.err) ELSE Step(SetItem(book, "entries", sum.value))

\* Line 235 on the book of line 234
Extend(book, world) ==
    IF ~HasKey(world, "entries") THEN Fail(book, "KeyError")
    ELSE Added(book, IAdd(Item(book, "entries"), Item(world, "entries")))

\* Lines 234-235
Concatenate(book, world) ==
    IF ~IsDict(book) THEN Fail(book, "AttributeError")
    ELSE Extend(SetItem(book, "entries", Get(book, "entries", PyList(<<>>))), world)

\* A variant of line 238 where the left operand wins
OrKeep(a, b) ==
    PyDict(a.dict \o SelectSeq(b.dict, LAMBDA it : ~HasKey(a, it[1])))

\* a | b on two dicts: the keys of a in their places, with the value b has
\* for them if it has one, then the other keys of b
Or(a, b) ==
    PyDict([i \in 1..Len(a.dict) |->
                IF HasKey(b, a.dict[i][1])
                THEN <<a.dict[i][1], Item(b, a.dict[i][1])>> ELSE a.dict[i]]
           \o SelectSeq(b.dict, LAMBDA it : ~HasKey(a, it[1])))

\* A variant of lines 236-238 that merges the whole worldbook into the book
MergeAll(book, world) ==
    IF ~IsDict(book) THEN Fail(book, "AttributeError") ELSE Step(Or(book, world))

\* Lines 236-238: the | of two dicts; TypeError when either is a list, a str
\* or None (numbers are not among the inputs)
MergeExtensions(book, world) ==
    IF ~IsDict(book) THEN Fail(book, "AttributeError")
    ELSE IF /\ IsDict(Get(world, "extensions", PyDict(<<>>)))
            /\ IsDict(Get(book, "extensions", PyDict(<<>>)))
         THEN Step(SetItem(book, "extensions",
                           Or(Get(book, "extensions", PyDict(<<>>)),
                              Get(world, "extensions", PyDict(<<>>)))))
    ELSE Fail(book, "TypeError")

\* Lines 231-233 after 228-230, 234-235 after those, 236-239 after those
Named(r, world) == IF ~r.ret.ok THEN r ELSE Adopt(r.book, world, "name")
Concatenated(r, world) == IF ~r.ret.ok THEN r ELSE Concatenate(r.book, world)
Merged(r, world) == IF ~r.ret.ok THEN r ELSE MergeExtensions(r.book, world)

\* import_worldbook(characterBook, worldBook): characterBook afterwards, and
\* the book returned, which is characterBook itself, or the error raised
import_worldbook(book, world) ==
    IF ~IsDict(world) THEN Fail(book, "AttributeError")
    ELSE Merged(Concatenated(Named(Adopt(book, world, "description"), world), world),
                world)

-----------------------------------------------------------------------------
(* The worldbook import of the editor: the documents a chosen file may hold, *)
(* the books the card may have, and the handler                              *)

\* The imports of one session
MaxImports == 2

E1 == PyDict(<< <<"keys", PyList(<<PyStr("k1")>>)>>, <<"content", PyStr("c1")>> >>)
E2 == PyDict(<< <<"keys", PyList(<<PyStr("k2")>>)>>, <<"content", PyStr("c2")>> >>)
E3 == PyDict(<< <<"keys", PyList(<<>>)>>, <<"content", PyStr("c3")>>,
                <<"enabled", PyBool(FALSE)>> >>)

\* Entries with the legacy field `entry`
ESame == PyDict(<< <<"entry", PyStr("x")>>, <<"content", PyStr("x")>> >>)
EDiff == PyDict(<< <<"entry", PyStr("x")>>, <<"content", PyStr("y")>>,
                   <<"keys", PyList(<<PyStr("k")>>)>> >>)
EOnly == PyDict(<< <<"keys", PyList(<<>>)>>, <<"entry", PyStr("x")>> >>)
ENull == PyDict(<< <<"entry", PyNone>>, <<"keys", PyList(<<>>)>> >>)
ENum == PyDict(<< <<"entry", PyInt(1)>>, <<"content", PyBool(TRUE)>> >>)

\* What "entries" of a worldbook document may be
WorldEntries ==
    {PyList(<<E2, E3>>),
     PyDict(<< <<"0", E2>>, <<"1", E3>> >>),
     PyList(<<ESame, EDiff, EOnly>>),
     PyList(<<ENull, ENum>>),
     PyDict(<< <<"7", ESame>>, <<"3", EDiff>> >>),
     PyList(<<>>), PyDict(<<>>), PyNone, PyStr("ab"),
     PyList(<<PyStr("x")>>), PyList(<<E2, PyInt(5)>>),
     PyList(<<PyList(<<PyStr("entry")>>)>>), PyList(<<PyStr("an entry")>>)}

\* The other fields of a worldbook document
WorldFull ==
    << <<"name", PyStr("WN")>>, <<"description", PyStr("W")>>,
       <<"extensions", PyDict(<< <<"a", PyInt(2)>>, <<"b", PyInt(3)>> >>)>>,
       <<"scan_depth", PyInt(7)>> >>

WorldHeaders ==
    {<<>>, WorldFull,
     << <<"name", PyStr("")>>, <<"description", PyStr("")>>,
        <<"extensions", PyDict(<<>>)>> >>,
     << <<"name", PyStr("WN2")>>, <<"description", PyStr("W2")>>,
        <<"extensions", PyDict(<< <<"c", PyInt(5)>> >>)>>, <<"zz", PyStr("w")>> >>,
     << <<"description", PyNone>> >>,
     << <<"name", PyStr("WN")>>, <<"extensions", PyNone>> >>}

Card(items) ==
    PyDict(<< <<"spec", PyStr("chara_card_v2")>>, <<"spec_version", PyStr("2.0")>>,
              <<"data", PyDict(items)>> >>)

\* Documents without "entries": values that are no object, objects that are no
\* card, and cards of several shapes
OtherDocuments ==
    {PyNone, PyList(<<>>), PyStr("x"), PyInt(5), PyBool(TRUE),
     PyList(<<PyDict(<< <<"entries", PyList(<<>>)>> >>)>>),
     PyDict(<<>>), PyDict(<< <<"name", PyStr("N")>> >>),
     Card(<< <<"name", PyStr("Foo")>>,
             <<"character_book", PyDict(WorldFull \o << <<"entries", PyList(<<E2, ESame>>)>> >>)>> >>),
     Card(<< <<"character_book",
               PyDict(<< <<"entries", PyDict(<< <<"0", E2>>, <<"1", E3>> >>)>> >>)>> >>),
     Card(<< <<"character_book", PyDict(<< <<"name", PyStr("NB")>> >>)>> >>),
     Card(<< <<"name", PyStr("Foo")>> >>),
     Card(<< <<"character_book", PyNone>> >>),
     Card(<< <<"character_book", PyList(<<>>)>> >>),
     PyDict(<< <<"spec", PyStr("chara_card_v2")>> >>),
     PyDict(<< <<"spec", PyStr("chara_card_v2")>>, <<"data", PyNone>> >>),
     PyDict(<< <<"spec", PyStr("chara_card_v2")>>,
               <<"data", PyList(<<PyStr("character_book")>>)>> >>),
     PyDict(<< <<"spec", PyStr("chara_card_v2")>>, <<"data", PyStr("character_book")>> >>),
     PyDict(<< <<"spec", PyStr("chara_card_v2")>>, <<"data", PyStr("x")>> >>),
     PyDict(<< <<"spec", PyStr("chara_card_v3")>>,
               <<"data", PyDict(<< <<"character_book",
                                     PyDict(<< <<"entries", PyList(<<E2>>)>> >>)>> >>)>> >>),
     PyDict(<< <<"data", PyDict(<< <<"character_book",
                                     PyDict(<< <<"entries", PyList(<<E2>>)>> >>)>> >>)>> >>)}

\* What json.load may return for the chosen file (line 630)
WorldbookInputs ==
    {PyDict(h \o << <<"entries", PyList(<<E2, E3>>)>> >>) : h \in WorldHeaders}
    \cup {PyDict(<< <<"entries", e>> >> \o WorldFull) : e \in WorldEntries}
    \cup OtherDocuments

\* The character_book of the card in the editor, Unbound for a card without one
CharacterBooks ==
    {Unbound, PyDict(<<>>),
     PyDict(<< <<"name", PyStr("B")>>, <<"description", PyStr("B")>>,
               <<"scan_depth", PyInt(2)>>, <<"token_budget", PyInt(5)>>,
               <<"recursive_scanning", PyBool(FALSE)>>,
               <<"extensions", PyDict(<< <<"a", PyInt(1)>>, <<"c", PyInt(4)>> >>)>>,
               <<"entries", PyList(<<E1>>)>>, <<"zz", PyStr("u")>> >>),
     PyDict(<< <<"name", PyStr("")>>, <<"description", PyStr("")>>,
               <<"extensions", PyDict(<<>>)>>, <<"entries", PyList(<<>>)>> >>),
     PyDict(<< <<"entries", PyList(<<E1, E1>>)>>, <<"description", PyNone>> >>),
     PyDict(<< <<"entries", PyDict(<<>>)>>, <<"name", PyStr("B")>> >>),
     PyDict(<< <<"extensions", PyNone>>, <<"token_budget", PyInt(5)>> >>)}

\* Line 634: self.fullData["data"].get("character_book", {})
BookOf(book) == IF book = Unbound THEN PyDict(<<>>) ELSE book

BookInit ==
    /\ file = [format |-> "PNG", text |-> <<>>]
    /\ written = Unbound
    /\ previous = Unbound
    /\ call = "none"
    /\ decoded = Unbound
    /\ ret = Return(PyNone)
    /\ source = Unbound
    /\ document = Unbound
    /\ worldBook = Unbound
    /\ original \in CharacterBooks
    /\ bookBefore = Unbound
    /\ characterBook = original
    /\ imports = 0
    /\ NoEditor
    /\ NoSwap
    /\ NoList
    /\ NoChunk

\* CharacterBookWidget.import_worldbook, lines 623-637: the chosen file is
\* loaded and processed; a document that is no worldbook ends the handler,
\* any other is merged into the book of the card
ImportWorldbook ==
    /\ imports < MaxImports
    /\ \E doc \in WorldbookInputs :
           \E w \in {process_worldbook(doc)} :
               /\ source' = doc
               /\ document' = Mutated(doc)
               /\ worldBook' = w
               /\ bookBefore' = characterBook
               /\ imports' = imports + 1
               /\ IF ~w.ok \/ w.value = PyNone
                  THEN /\ call' = "process_worldbook"
                       /\ ret' = w
                       /\ characterBook' = characterBook
                  ELSE \E m \in {import_worldbook(BookOf(characterBook), w.value)} :
                           /\ call' = "import_worldbook"
                           /\ ret' = m.ret
                           /\ characterBook' = m.book
    /\ UNCHANGED <<codecVars, original, editorVars, swapVars, listVars, chunkVars>>

BookNext == ImportWorldbook

BookSpec == BookInit /\ [][BookNext]_vars

-----------------------------------------------------------------------------
(* The form of the editor: the texts and check states of its widgets, and   *)
(* the functions that load a record into them and read it back.  The texts  *)
(* are those of the cards of the inputs: a field shown as text is a str or  *)
(* absent, a field shown as a list is a list of str.                        *)

\* str(x) for a value of the card
Str(x) ==
    CASE IsStr(x) -> x.str
      [] IsInt(x) -> IntToStr(x.int)
      [] IsFloat(x) -> IntToStr(x.float) \o ".0"
      [] IsBool(x) -> (IF x.bool THEN "True" ELSE "False")
      [] OTHER -> "None"

\* setText(x) and setPlainText(x): the text of x; None is the null text, which
\* the widget returns as ""
TextOf(x) == IF IsStr(x) THEN x.str ELSE ""

\* ", ".join(xs) for a list of str
RECURSIVE JoinComma(_)
JoinComma(xs) ==
    IF Len(xs) = 0 THEN ""
    ELSE IF Len(xs) = 1 THEN xs[1].str
    ELSE JoinComma(SubSeq(xs, 1, Len(xs) - 1)) \o ", " \o xs[Len(xs)].str

\* x.strip(): the text without the spaces at its ends
RECURSIVE Strip(_)
Strip(t) ==
    IF Len(t) = 0 THEN t
    ELSE IF CharAt(t, 1) = " " THEN Strip(SubSeq(t, 2, Len(t)))
    ELSE IF CharAt(t, Len(t)) = " " THEN Strip(SubSeq(t, 1, Len(t) - 1))
    ELSE t

\* The index of the first "," of t from index i, Len(t) + 1 if there is none
RECURSIVE NextComma(_, _)
NextComma(t, i) ==
    IF i > Len(t) THEN i ELSE IF CharAt(t, i) = "," THEN i ELSE NextComma(t, i + 1)

\* t.split(','), from index i: the pieces between the commas, "" included
RECURSIVE SplitFrom(_, _)
SplitFrom(t, i) ==
    IF NextComma(t, i) > Len(t) THEN <<SubSeq(t, i, Len(t))>>
    ELSE <<SubSeq(t, i, NextComma(t, i) - 1)>> \o SplitFrom(t, NextComma(t, i) + 1)

\* [x.strip() for x in t.split(',')]
SplitComma(t) ==
    PyList([i \in 1..Len(SplitFrom(t, 1)) |-> PyStr(Strip(SplitFrom(t, 1)[i]))])

\* The text is an optional "-" and digits, with ".0" after them if dotted
IsNumeral(t, dotted) ==
    /\ Len(t) - (IF dotted THEN 2 ELSE 0) - (IF Len(t) > 0 /\ CharAt(t, 1) = "-" THEN 1 ELSE 0) > 0
    /\ dotted => SubSeq(t, Len(t) - 1, Len(t)) = ".0"
    /\ \A i \in 1..(Len(t) - (IF dotted THEN 2 ELSE 0)) :
          IsDigit(CharAt(t, i)) \/ (i = 1 /\ CharAt(t, i) = "-")

\* The integer a numeral denotes
NumeralValue(t, dotted) ==
    IF CharAt(t, 1) = "-"
    THEN 0 - StrToNat(t, 2, Len(t) - (IF dotted THEN 2 ELSE 0))
    ELSE StrToNat(t, 1, Len(t) - (IF dotted THEN 2 ELSE 0))

\* safeNumberConversion(stringVal, default), lines 195-199: float(stringVal),
\* or the default for a text float() takes no number from.  float() is taken
\* on the numerals str() makes of an int and of an integral float; the other
\* texts of the inputs are no numbers
safeNumberConversion(stringVal, default) ==
    IF IsNumeral(Strip(stringVal), FALSE) THEN PyFloat(NumeralValue(Strip(stringVal), FALSE))
    ELSE IF IsNumeral(Strip(stringVal), TRUE) THEN PyFloat(NumeralValue(Strip(stringVal), TRUE))
    ELSE default

\* int(text), lines 679 and 683: the integer of a numeral, ValueError otherwise
IntOf(text) ==
    IF IsNumeral(Strip(text), FALSE) THEN Return(PyInt(NumeralValue(Strip(text), FALSE)))
    ELSE Raise("ValueError")

\* safeJSONLoads(jsonstring), lines 188-192
safeJSONLoads(jsonstring) ==
    IF Loads(jsonstring).ok THEN Loads(jsonstring).value ELSE PyStr(jsonstring)

\* A variant of convertBoolToTristate that shows an absent value as unchecked
convertBoolToTristateTwo(data) ==
    IF data = PyBool(TRUE) THEN "Checked" ELSE "Unchecked"

\* convertBoolToTristate(data), lines 172-177
convertBoolToTristate(data) ==
    IF data = PyBool(TRUE) THEN "Checked"
    ELSE IF data = PyBool(FALSE) THEN "Unchecked"
    ELSE "PartiallyChecked"

\* convertTristateToBool(data), lines 180-185
convertTristateToBool(data) ==
    IF data = "Checked" THEN PyBool(TRUE)
    ELSE IF data = "Unchecked" THEN PyBool(FALSE)
    ELSE PyNone

\* updateOrDeleteKey(dictionary, key, value, nullvalue), lines 202-206
updateOrDeleteKey(dictionary, key, value, nullvalue) ==
    IF value # nullvalue THEN SetItem(dictionary, key, value)
    ELSE IF HasKey(dictionary, key) THEN DelItem(dictionary, key)
    ELSE dictionary

\* The text the position box shows for a position (lines 490-497)
PositionText(position) ==
    IF position = PyStr("before_char") THEN "Before character"
    ELSE IF position = PyStr("after_char") THEN "After character"
    ELSE ""

\* An EntryWidget as it is made (lines 337-458) and as setData leaves it for no
\* entry (lines 479-482): empty texts, enabled checked, the other boxes unchecked
BlankEntry ==
    [content |-> "", keys |-> "", name |-> "", enabled |-> TRUE,
     case_sensitive |-> "Unchecked", constant |-> "Unchecked", position |-> "",
     insertion_order |-> "", priority |-> "", id |-> "", comment |-> "",
     selective |-> "Unchecked", secondary_keys |-> "", extensions |-> "{}"]

\* EntryWidget.setData(entry), lines 478-505: `not entry` is true of None and
\* of an entry without any field
setData(entry) ==
    IF entry = PyNone \/ entry = PyDict(<<>>) THEN BlankEntry
    ELSE [content |-> TextOf(Get(entry, "content", PyNone)),
          keys |-> JoinComma(Get(entry, "keys", PyList(<<>>)).list),
          name |-> TextOf(Get(entry, "name", PyNone)),
          enabled |-> Get(entry, "enabled", PyBool(TRUE)).bool,
          case_sensitive |-> convertBoolToTristate(Get(entry, "case_sensitive", PyNone)),
          constant |-> convertBoolToTristate(Get(entry, "constant", PyNone)),
          position |-> PositionText(Get(entry, "position", PyStr(""))),
          insertion_order |-> Str(Get(entry, "insertion_order", PyStr("0"))),
          priority |-> Str(Get(entry, "priority", PyStr(""))),
          id |-> Str(Get(entry, "id", PyStr(""))),
          comment |-> TextOf(Get(entry, "comment", PyNone)),
          selective |-> convertBoolToTristate(Get(entry, "selective", PyNone)),
          secondary_keys |-> JoinComma(Get(entry, "secondary_keys", PyList(<<>>)).list),
          extensions |-> Dumps(Get(entry, "extensions", PyDict(<<>>)))]

\* Lines 523-527: the position of the box
WithPosition(entry_dict, position) ==
    IF position = "Before character" THEN SetItem(entry_dict, "position", PyStr("before_char"))
    ELSE IF position = "After character" THEN SetItem(entry_dict, "position", PyStr("after_char"))
    ELSE entry_dict

\* EntryWidget.getData(), lines 507-527, on the widget w
getData(w) ==
    WithPosition(
      updateOrDeleteKey(
        updateOrDeleteKey(
          updateOrDeleteKey(
            updateOrDeleteKey(
              updateOrDeleteKey(
                updateOrDeleteKey(
                  updateOrDeleteKey(
                    updateOrDeleteKey(
                      PyDict(<< <<"keys", SplitComma(w.keys)>>,
                                <<"content", PyStr(w.content)>>,
                                <<"extensions", safeJSONLoads(w.extensions)>>,
                                <<"enabled", PyBool(w.enabled)>>,
                                <<"insertion_order",
                                  safeNumberConversion(w.insertion_order, PyInt(0))>> >>),
                      "case_sensitive", convertTristateToBool(w.case_sensitive), PyNone),
                    "name", PyStr(w.name), PyStr("")),
                  "priority", safeNumberConversion(w.priority, PyNone), PyNone),
                "id", safeNumberConversion(w.id, PyNone), PyNone),
              "comment", PyStr(w.comment), PyStr("")),
            "selective", convertTristateToBool(w.selective), PyNone),
          "secondary_keys", SplitComma(w.secondary_keys), PyNone),
        "constant", convertTristateToBool(w.constant), PyNone),
      w.position)

\* The widgets a list of entries is shown in (lines 668-670)
EntryWidgets(entries) == [i \in 1..Len(entries) |-> setData(entries[i])]

\* The character book a widget works on (lines 634, 660 and 673)
BookOfCard(fullData) == Get(Item(fullData, "data"), "character_book", PyDict(<<>>))

\* CharacterBookWidget.updateUIFromData(), lines 659-670
BookUIFromData(fullData) ==
    [name |-> TextOf(Get(BookOfCard(fullData), "name", PyStr(""))),
     description |-> TextOf(Get(BookOfCard(fullData), "description", PyStr(""))),
     scan_depth |-> Str(Get(BookOfCard(fullData), "scan_depth", PyStr(""))),
     token_budget |-> Str(Get(BookOfCard(fullData), "token_budget", PyStr(""))),
     recursive_scanning |->
         convertBoolToTristate(Get(BookOfCard(fullData), "recursive_scanning", PyNone)),
     extensions |-> Dumps(Get(BookOfCard(fullData), "extensions", PyDict(<<>>))),
     entries |-> EntryWidgets(Get(BookOfCard(fullData), "entries", PyList(<<>>)).list)]

\* Lines 678-685: the number of a box, or no key for an empty box
WithNumber(book, key, text) ==
    IF text # "" THEN SetItem(book, key, IntOf(text).value)
    ELSE IF HasKey(book, key) THEN DelItem(book, key)
    ELSE book

\* Lines 676-677: the name and the description
WithTitles(book, w) ==
    updateOrDeleteKey(updateOrDeleteKey(book, "name", PyStr(w.name), PyStr("")),
                      "description", PyStr(w.description), PyStr(""))

\* Lines 686-694: the tri-state box, the extensions and the entries
WithEntries(book, w) ==
    SetItem(
      SetItem(
        updateOrDeleteKey(book, "recursive_scanning",
                          convertTristateToBool(w.recursive_scanning), PyNone),
        "extensions", safeJSONLoads(w.extensions)),
      "entries", PyList([i \in 1..Len(w.entries) |-> getData(w.entries[i])]))

\* int() takes the text of the box, or the box is empty
Numbered(text) == text = "" \/ IntOf(text).ok

\* The character book after CharacterBookWidget.updateDataFromUI(), lines
\* 672-694, on the book widget w; int() ends the call where it raises
BookFromUI(book, w) ==
    IF ~Numbered(w.scan_depth) THEN WithTitles(book, w)
    ELSE IF ~Numbered(w.token_budget)
    THEN WithNumber(WithTitles(book, w), "scan_depth", w.scan_depth)
    ELSE WithEntries(
           WithNumber(WithNumber(WithTitles(book, w), "scan_depth", w.scan_depth),
                      "token_budget", w.token_budget), w)

\* fullData["data"]["character_book"] = characterBook
WithBook(fullData, book) ==
    SetItem(fullData, "data", SetItem(Item(fullData, "data"), "character_book", book))

\* CharacterBookWidget.updateDataFromUI(), lines 672-694: the card after it
BookDataFromUI(fullData, w) == WithBook(fullData, BookFromUI(BookOfCard(fullData), w))

\* The texts of a list of str
Texts(xs) == [i \in 1..Len(xs) |-> xs[i].str]

\* EditorWidget.updateUIFromData(), lines 1775-1794, without the book widget
EditorUIFromData(fullData) ==
    [name |-> TextOf(Get(Item(fullData, "data"), "name", PyNone)),
     description |-> TextOf(Get(Item(fullData, "data"), "description", PyNone)),
     personality |-> TextOf(Get(Item(fullData, "data"), "personality", PyNone)),
     scenario |-> TextOf(Get(Item(fullData, "data"), "scenario", PyNone)),
     first_mes |-> TextOf(Get(Item(fullData, "data"), "first_mes", PyNone)),
     mes_example |-> TextOf(Get(Item(fullData, "data"), "mes_example", PyNone)),
     alternate_greetings |->
         Texts(Get(Item(fullData, "data"), "alternate_greetings", PyList(<<>>)).list),
     system_prompt |-> TextOf(Get(Item(fullData, "data"), "system_prompt", PyNone)),
     post_history_instructions |->
         TextOf(Get(Item(fullData, "data"), "post_history_instructions", PyNone)),
     tags |-> JoinComma(Get(Item(fullData, "data"), "tags", PyList(<<>>)).list),
     character_version |-> TextOf(Get(Item(fullData, "data"), "character_version", PyNone)),
     creator |-> TextOf(Get(Item(fullData, "data"), "creator", PyNone)),
     creator_notes |-> TextOf(Get(Item(fullData, "data"), "creator_notes", PyNone)),
     extensions |-> Dumps(Get(Item(fullData, "data"), "extensions", PyNone))]

\* Line 1803: the tags of the box that are not empty
Tags(text) == PyList(SelectSeq(SplitComma(text).list, LAMBDA x : x.str # ""))

\* The assignments of a list of <<key, value>> to a dict, in their order
RECURSIVE Assign(_, _)
Assign(d, items) ==
    IF Len(items) = 0 THEN d
    ELSE SetItem(Assign(d, SubSeq(items, 1, Len(items) - 1)),
                 items[Len(items)][1], items[Len(items)][2])

\* EditorWidget.updateDataFromUI(), lines 1798-1821, on the editor's boxes w:
\* the data after the assignments, before the book widget's call
DataFromUI(data, w) ==
    Assign(data,
           << <<"name", PyStr(w.name)>>,
              <<"tags", Tags(w.tags)>>,
              <<"character_version", PyStr(w.character_version)>>,
              <<"description", PyStr(w.description)>>,
              <<"personality", PyStr(w.personality)>>,
              <<"scenario", PyStr(w.scenario)>>,
              <<"first_mes", PyStr(w.first_mes)>>,
              <<"mes_example", PyStr(w.mes_example)>>,
              <<"alternate_greetings",
                PyList([i \in 1..Len(w.alternate_greetings) |->
                            PyStr(w.alternate_greetings[i])])>>,
              <<"system_prompt", PyStr(w.system_prompt)>>,
              <<"post_history_instructions", PyStr(w.post_history_instructions)>>,
              <<"creator", PyStr(w.creator)>>,
              <<"creator_notes", PyStr(w.creator_notes)>>,
              <<"extensions", safeJSONLoads(w.extensions)>> >>)

\* The card after lines 1798-1821
EditorDataFromUI(fullData, w) == SetItem(fullData, "data", DataFromUI(Item(fullData, "data"), w))

-----------------------------------------------------------------------------
(* The editor of one card: EditorWidget and its CharacterBookWidget.  The   *)
(* user edits the boxes, saves, views the card, imports a card from JSON    *)
(* and imports worldbooks.  An error raised in a handler is logged by the   *)
(* excepthook of lines 107-113 and the editor goes on as the handler left   *)
(* it.                                                                      *)

MaxSteps == 3
MaxWidgets == 3

\* An entry with its tri-state fields at a value, or without them
TriEntry(flag) ==
    DictOf(<< <<"keys", PyList(<<PyStr("k")>>)>>, <<"content", PyStr("c")>>,
              <<"extensions", PyDict(<<>>)>>, <<"enabled", PyBool(TRUE)>>,
              <<"insertion_order", PyInt(5)>>, <<"case_sensitive", flag>>,
              <<"selective", flag>>,
              <<"secondary_keys", PyList(<<PyStr("s")>>)>>, <<"constant", flag>> >>)

\* A card with a book of one such entry
TriCard(flag) ==
    WithBook(deep_empty_card,
             DictOf(<< <<"name", PyStr("Book")>>, <<"recursive_scanning", flag>>,
                       <<"extensions", PyDict(<<>>)>>,
                       <<"entries", PyList(<<TriEntry(flag)>>)>> >>))

\* The cards an editor is opened on: cards as read_character returns them
\* (line 1980), normalized by its lines 132-144
EditorCards ==
    {Normalize(card).value :
        card \in {deep_empty_card, FullCard}
                    \cup {TriCard(flag) : flag \in {PyBool(TRUE), PyBool(FALSE), Unbound}}}

\* The cards of the JSON files the user imports
ImportCards == {TriCard(PyBool(TRUE)), deep_empty_card}

\* The documents of the JSON files the user imports as worldbooks: worldbooks,
\* a card with a book, and documents that are no worldbook
EditorWorldbooks ==
    {PyDict(<< <<"entries", PyList(<<E2>>)>> >>),
     PyDict(<< <<"entries", PyDict(<< <<"0", E2>>, <<"1", E3>> >>)>>,
               <<"extensions", PyDict(<< <<"a", PyInt(2)>> >>)>> >>),
     Card(<< <<"entries", PyList(<<E1>>)>> >>),
     PyDict(<< <<"name", PyStr("x")>> >>)}

\* The texts the user types into the Extensions box of the book
ExtensionTexts == {"{\"a\": 1}", "[1]", "not json"}

\* A click on a tri-state box: unchecked, partially checked, checked and back
Clicked(state) ==
    IF state = "Unchecked" THEN "PartiallyChecked"
    ELSE IF state = "PartiallyChecked" THEN "Checked"
    ELSE "Unchecked"

EditorInit ==
    /\ file = [format |-> "PNG", text |-> <<>>]
    /\ written = Unbound
    /\ previous = Unbound
    /\ call = "none"
    /\ decoded = Unbound
    /\ ret = Return(PyNone)
    /\ source = Unbound
    /\ document = Unbound
    /\ worldBook = Unbound
    /\ original = Unbound
    /\ bookBefore = Unbound
    /\ characterBook = Unbound
    /\ imports = 0
    /\ editorData \in EditorCards
    /\ bookData = editorData
    /\ aliased = TRUE
    /\ editorForm = EditorUIFromData(editorData)
    /\ bookForm = BookUIFromData(bookData)
    /\ dirty = FALSE
    /\ steps = 0
    /\ NoSwap
    /\ NoList
    /\ NoChunk

\* What a handler of the editor leaves alone
Handler(name) ==
    /\ steps < MaxSteps
    /\ steps' = steps + 1
    /\ call' = name
    /\ UNCHANGED <<previous, decoded, original, bookBefore, characterBook, imports, swapVars,
                   listVars, chunkVars>>

\* CharacterBookWidget.add_entry(), lines 612-621, from the Add Entry button
add_entry ==
    /\ Handler("add_entry")
    /\ Len(bookForm.entries) < MaxWidgets
    /\ bookForm' = [bookForm EXCEPT !.entries = Append(@, setData(PyNone))]
    /\ dirty' = TRUE
    /\ ret' = Return(PyNone)
    /\ UNCHANGED <<file, written, source, document, worldBook,
                   editorData, bookData, aliased, editorForm>>

\* xs without its element at index i
Without(xs, i) == SubSeq(xs, 1, i - 1) \o SubSeq(xs, i + 1, Len(xs))

\* CharacterBookWidget.delete_entry(item), lines 640-643
delete_entry ==
    /\ Handler("delete_entry")
    /\ \E i \in 1..Len(bookForm.entries) :
           bookForm' = [bookForm EXCEPT !.entries = Without(@, i)]
    /\ dirty' = TRUE
    /\ ret' = Return(PyNone)
    /\ UNCHANGED <<file, written, source, document, worldBook,
                   editorData, bookData, aliased, editorForm>>

\* The user types into the content box of an entry or clicks one of its
\* tri-state boxes; the signals of lines 336-458 set the dirty style
EditEntry ==
    /\ Handler("EditEntry")
    /\ \E i \in 1..Len(bookForm.entries) :
           \/ bookForm' = [bookForm EXCEPT !.entries[i].content = "typed"]
           \/ bookForm' = [bookForm EXCEPT !.entries[i].case_sensitive = Clicked(@)]
    /\ dirty' = TRUE
    /\ ret' = Return(PyNone)
    /\ UNCHANGED <<file, written, source, document, worldBook,
                   editorData, bookData, aliased, editorForm>>

\* The user types into the Extensions box of the book or clicks its
\* Recursive Scanning box
EditBook ==
    /\ Handler("EditBook")
    /\ \/ \E text \in ExtensionTexts \ {bookForm.extensions} :
              bookForm' = [bookForm EXCEPT !.extensions = text]
       \/ bookForm' = [bookForm EXCEPT !.recursive_scanning = Clicked(@)]
    /\ dirty' = TRUE
    /\ ret' = Return(PyNone)
    /\ UNCHANGED <<file, written, source, document, worldBook,
                   editorData, bookData, aliased, editorForm>>

\* EditorWidget.updateDataFromUI(), lines 1798-1823: the editor's boxes go
\* into the editor's card, the book widget's boxes into the book widget's card
updateDataFromUI(card, shared, w) ==
    [editorData |-> IF shared THEN BookDataFromUI(card, w) ELSE card,
     bookData |-> BookDataFromUI(IF shared THEN card ELSE bookData, w),
     ret |-> IF Numbered(w.scan_depth) /\ Numbered(w.token_budget)
             THEN Return(PyNone) ELSE Raise("ValueError")]

\* MainWindow.updateTokenCount(), lines 2185-2191: showing the card syncs the
\* form into the card
updateTokenCount ==
    /\ Handler("updateTokenCount")
    /\ \E u \in {updateDataFromUI(EditorDataFromUI(editorData, editorForm), aliased, bookForm)} :
           /\ editorData' = u.editorData
           /\ bookData' = u.bookData
           /\ ret' = u.ret
    /\ UNCHANGED <<file, written, source, document, worldBook,
                   aliased, editorForm, bookForm, dirty>>

\* EditorWidget.saveClicked(), lines 1841-1849
saveClicked ==
    /\ Handler("saveClicked")
    /\ \E u \in {updateDataFromUI(EditorDataFromUI(editorData, editorForm), aliased, bookForm)} :
           /\ editorData' = u.editorData
           /\ bookData' = u.bookData
           /\ IF u.ret.ok
              THEN \E w \in {write_character(file, u.editorData)} :
                       /\ file' = w.file
                       /\ written' = IF w.ret.ok THEN u.editorData ELSE written
                       /\ dirty' = IF w.ret.ok THEN FALSE ELSE dirty
                       /\ ret' = w.ret
              ELSE /\ ret' = u.ret
                   /\ UNCHANGED <<file, written, dirty>>
    /\ UNCHANGED <<source, document, worldBook, aliased, editorForm, bookForm>>

\* EditorWidget.importClicked(), lines 1927-1936: the card of the chosen file
\* becomes the editor's card; the form is refreshed and the row is dirty,
\* also when the dialog is cancelled
importClicked ==
    /\ Handler("importClicked")
    /\ \E chosen \in ImportCards \cup {Unbound} :
           /\ editorData' = IF chosen = Unbound THEN editorData ELSE chosen
           /\ aliased' = IF chosen = Unbound THEN aliased ELSE FALSE
           /\ editorForm' = EditorUIFromData(IF chosen = Unbound THEN editorData ELSE chosen)
    /\ bookForm' = BookUIFromData(bookData)
    /\ dirty' = TRUE
    /\ ret' = Return(PyNone)
    /\ UNCHANGED <<file, written, source, document, worldBook, bookData>>

\* A variant of NoWorldbook that lets a document that is no worldbook through
NoWorldbookRaised(w) == ~w.ok

\* Lines 631-633: process_worldbook raised, or the handler returns on None
NoWorldbook(w) == ~w.ok \/ w.value = PyNone

\* CharacterBookWidget.import_worldbook(), lines 623-637, on a chosen file
ImportWorldbookClicked ==
    /\ Handler("ImportWorldbookClicked")
    /\ \E doc \in EditorWorldbooks :
           \E w \in {process_worldbook(doc)} :
               /\ source' = doc
               /\ document' = Mutated(doc)
               /\ worldBook' = w
               /\ IF NoWorldbook(w)
                  THEN /\ ret' = w
                       /\ UNCHANGED <<editorData, bookData, bookForm, dirty>>
                  ELSE \E m \in {import_worldbook(BookOfCard(bookData), w.value)} :
                           /\ ret' = m.ret
                           /\ bookData' = WithBook(bookData, m.book)
                           /\ editorData' = IF aliased THEN WithBook(bookData, m.book)
                                            ELSE editorData
                           /\ bookForm' = IF m.ret.ok
                                          THEN BookUIFromData(WithBook(bookData, m.book))
                                          ELSE bookForm
                           /\ dirty' = (m.ret.ok \/ dirty)
    /\ UNCHANGED <<file, written, aliased, editorForm>>

EditorNext ==
    \/ add_entry
    \/ delete_entry
    \/ EditEntry
    \/ EditBook
    \/ updateTokenCount
    \/ saveClicked
    \/ importClicked
    \/ ImportWorldbookClicked

EditorSpec == EditorInit /\ [][EditorNext]_vars

-----------------------------------------------------------------------------
(* Change Image: EditorWidget.changeImageClicked, lines 1883-1915, statement *)
(* by statement.  Each call of the operating system, the sync of the form    *)
(* and the write of the card either succeeds or raises; what raises in the   *)
(* try block goes to the recovery of lines 1906-1914.                        *)

MaxSwaps == 2

\* A file: what the image shows, and the PNG the codec reads and writes
Picture(pixels, png) == [pixels |-> pixels, png |-> png]

\* The card's PNG before the change: without a card, or with the card written
CardFiles ==
    {Picture("old", [format |-> "PNG", text |-> <<>>]),
     Picture("old", [format |-> "PNG", text |-> <<Chunk("chara", Encoded(deep_empty_card))>>])}

\* A file original + ".bak" left from before: none, or a stale one
StaleFiles == {Unbound, Picture("stale", [format |-> "PNG", text |-> <<>>])}

\* The file the user chooses: a PNG, a file that is no image, or the card's
\* own file, which is away once it is renamed
same == [same |-> TRUE]
NewFiles ==
    {Picture("new", [format |-> "PNG", text |-> <<>>]),
     Picture("new", [format |-> "none", text |-> <<>>]),
     same}

\* What a copy or a save that raised midway leaves
Truncated == Picture("truncated", [format |-> "none", text |-> <<>>])

SwapInit ==
    /\ file = [format |-> "PNG", text |-> <<>>]
    /\ written = Unbound
    /\ previous = Unbound
    /\ call = "none"
    /\ decoded = Unbound
    /\ ret = Return(PyNone)
    /\ source = Unbound
    /\ document = Unbound
    /\ worldBook = Unbound
    /\ original = Unbound
    /\ bookBefore = Unbound
    /\ characterBook = Unbound
    /\ imports = 0
    /\ NoEditor
    /\ pc = "idle"
    /\ disk \in [original : CardFiles, bak : StaleFiles]
    /\ new_png = Unbound
    /\ kept = Unbound
    /\ swallowed = FALSE
    /\ swaps = 0
    /\ NoList
    /\ NoChunk

\* What a statement of changeImageClicked leaves alone
Statement(name) ==
    /\ call' = name
    /\ UNCHANGED <<file, previous, decoded, bookVars, editorVars, swaps, listVars, chunkVars>>

\* The statement raised: the except clause of line 1906 is next
Raised(error) ==
    /\ ret' = Raise(error)
    /\ pc' = "except"

\* Lines 1884-1893: the card has a file and the user chose a new one
changeImageClicked ==
    /\ pc = "idle"
    /\ swaps < MaxSwaps
    /\ disk.original # Unbound
    /\ \E chosen \in NewFiles : new_png' = chosen
    /\ kept' = disk.original
    /\ swallowed' = FALSE
    /\ swaps' = swaps + 1
    /\ pc' = "exists"
    /\ call' = "changeImageClicked"
    /\ ret' = Return(PyNone)
    /\ UNCHANGED <<file, written, previous, decoded, bookVars, editorVars, disk, listVars, chunkVars>>

\* Lines 1896-1897: if os.path.exists(bak): os.remove(bak)
RemoveStale ==
    /\ pc = "exists"
    /\ Statement("os.remove(bak)")
    /\ \/ /\ disk' = [disk EXCEPT !.bak = Unbound]
          /\ pc' = "rename"
          /\ UNCHANGED ret
       \/ /\ disk.bak # Unbound
          /\ Raised("OSError")
          /\ UNCHANGED disk
    /\ UNCHANGED <<written, new_png, kept, swallowed>>

\* Line 1898: os.rename(original, bak)
RenameOriginal ==
    /\ pc = "rename"
    /\ Statement("os.rename(original, bak)")
    /\ \/ /\ disk' = [original |-> Unbound, bak |-> disk.original]
          /\ pc' = "copyfile"
          /\ UNCHANGED ret
       \/ /\ Raised("OSError")
          /\ UNCHANGED disk
    /\ UNCHANGED <<written, new_png, kept, swallowed>>

\* Line 1899: shutil.copyfile(new_png, original); a copy that raises leaves
\* no file or a truncated one
CopyNew ==
    /\ pc = "copyfile"
    /\ Statement("shutil.copyfile(new_png, original)")
    /\ \/ /\ new_png # same
          /\ disk' = [disk EXCEPT !.original = new_png]
          /\ pc' = "updateDataFromUI"
          /\ UNCHANGED ret
       \/ /\ Raised("OSError")
          /\ \/ UNCHANGED disk
             \/ new_png # same /\ disk' = [disk EXCEPT !.original = Truncated]
    /\ UNCHANGED <<written, new_png, kept, swallowed>>

\* Line 1900: self.updateDataFromUI(), which raises when int() does
SyncForm ==
    /\ pc = "updateDataFromUI"
    /\ Statement("updateDataFromUI")
    /\ \/ pc' = "write_character" /\ UNCHANGED ret
       \/ Raised("ValueError")
    /\ UNCHANGED <<written, disk, new_png, kept, swallowed>>

\* Line 1901: write_character(original, self.fullData); a save that raises
\* midway leaves a truncated file
WriteCard ==
    /\ pc = "write_character"
    /\ Statement("write_character")
    /\ \E data \in CardInputs :
           \E w \in {write_character(disk.original.png, data)} :
               \/ /\ w.ret.ok
                  /\ disk' = [disk EXCEPT !.original = Picture(@.pixels, w.file)]
                  /\ written' = data
                  /\ pc' = "remove"
                  /\ UNCHANGED ret
               \/ /\ ~w.ret.ok
                  /\ Raised(w.ret.err)
                  /\ UNCHANGED <<disk, written>>
               \/ /\ w.ret.ok
                  /\ Raised("OSError")
                  /\ disk' = [disk EXCEPT !.original = Truncated]
                  /\ UNCHANGED written
    /\ UNCHANGED <<new_png, kept, swallowed>>

\* Lines 1902-1905: os.remove(bak), and the lists are refreshed
RemoveBak ==
    /\ pc = "remove"
    /\ Statement("os.remove(bak) done")
    /\ \/ /\ disk' = [disk EXCEPT !.bak = Unbound]
          /\ pc' = "idle"
          /\ UNCHANGED ret
       \/ /\ Raised("OSError")
          /\ UNCHANGED disk
    /\ UNCHANGED <<written, new_png, kept, swallowed>>

\* Lines 1908-1910: if os.path.exists(bak): if os.path.exists(original):
\* os.remove(original); an error is passed by lines 1912-1913
RemoveChanged ==
    /\ pc = "except"
    /\ Statement("os.remove(original)")
    /\ \/ /\ disk.bak = Unbound
          /\ pc' = "idle"
          /\ UNCHANGED <<disk, swallowed>>
       \/ /\ disk.bak # Unbound
          /\ disk' = [disk EXCEPT !.original = Unbound]
          /\ pc' = "restore"
          /\ UNCHANGED swallowed
       \/ /\ disk.bak # Unbound
          /\ disk.original # Unbound
          /\ swallowed' = TRUE
          /\ pc' = "idle"
          /\ UNCHANGED disk
    /\ UNCHANGED <<written, ret, new_png, kept>>

\* Line 1911: os.rename(bak, original); an error is passed by lines 1912-1913
RestoreBak ==
    /\ pc = "restore"
    /\ Statement("os.rename(bak, original)")
    /\ \/ /\ disk' = [original |-> disk.bak, bak |-> Unbound]
          /\ UNCHANGED swallowed
       \/ /\ swallowed' = TRUE
          /\ UNCHANGED disk
    /\ pc' = "idle"
    /\ UNCHANGED <<written, ret, new_png, kept>>

SwapNext ==
    \/ changeImageClicked
    \/ RemoveStale
    \/ RenameOriginal
    \/ CopyNew
    \/ SyncForm
    \/ WriteCard
    \/ RemoveBak
    \/ RemoveChanged
    \/ RestoreBak

SwapSpec == SwapInit /\ [][SwapNext]_vars

-----------------------------------------------------------------------------
(* The list of cards and the stack of their editors: ImageList, lines        *)
(* 1961-2027.  Row i of the list is meant to belong to the editor at index i *)
(* of the stack.                                                             *)

MaxFiles == 2
MaxVirtual == 2

\* The files with the suffix .png a directory may hold: PNGs with and without
\* a card, a PNG whose chara text is no base64, and a file that is no PNG
PngFiles ==
    {[format |-> "PNG", text |-> <<>>],
     [format |-> "PNG", text |-> <<Chunk("chara", Encoded(deep_empty_card))>>],
     [format |-> "PNG", text |-> <<Chunk("chara", "e30")>>],
     [format |-> "JPEG", text |-> <<>>]}

\* sorted(os.listdir(filepath)), the files with the suffix .png (lines 1979-1980)
Listings == UNION {[1..n -> PngFiles] : n \in 0..MaxFiles}

\* The index of the first file of the listing read_character raises on, from
\* index i; Len(files) + 1 if there is none
RECURSIVE FirstRaising(_, _)
FirstRaising(files, i) ==
    IF i > Len(files) THEN i
    ELSE IF ~read_character(files[i]).ret.ok THEN i
    ELSE FirstRaising(files, i + 1)

\* The row of a card in the list and the editor of a card in the stack
Row(name) == [name |-> name]
Editor(name, data) == [name |-> name, data |-> data]

\* Lines 1981-1982, for the files up to the one that raised at index k: a
\* file gets its row before it is read
RowsUntil(files, k) == [i \in 1..(IF k > Len(files) THEN Len(files) ELSE k) |-> Row(i)]

\* Lines 1984-1988, for the files before the one that raised at index k
EditorsUntil(files, k) ==
    [i \in 1..(k - 1) |-> Editor(i, read_character(files[i]).ret.value)]

\* MainWindow.updateTokenCount() on an editor (lines 2185-2191): the form, as
\* loaded from the card, is synced into the card
Viewed(editor) ==
    [editor EXCEPT !.data =
        BookDataFromUI(EditorDataFromUI(@, EditorUIFromData(@)), BookUIFromData(@))]

\* updateTokenCount() on the current widget of the stack, if there is one
ViewCurrent(editors, index) ==
    IF index \in 1..Len(editors) THEN [editors EXCEPT ![index] = Viewed(@)] ELSE editors

\* ImageList.__init__ (lines 1964-1969) loaded a directory whose files all
\* read, and MainWindow.__init__ viewed the first card (line 2183)
ListInit ==
    /\ file = [format |-> "PNG", text |-> <<>>]
    /\ written = Unbound
    /\ previous = Unbound
    /\ call = "none"
    /\ decoded = Unbound
    /\ ret = Return(PyNone)
    /\ source = Unbound
    /\ document = Unbound
    /\ worldBook = Unbound
    /\ original = Unbound
    /\ bookBefore = Unbound
    /\ characterBook = Unbound
    /\ imports = 0
    /\ NoEditor
    /\ NoSwap
    /\ NoChunk
    /\ listing \in {files \in Listings : FirstRaising(files, 1) > Len(files)}
    /\ rows = RowsUntil(listing, Len(listing) + 1)
    /\ stack = ViewCurrent(EditorsUntil(listing, Len(listing) + 1),
                           IF Len(listing) > 0 THEN 1 ELSE 0)
    /\ current = (IF Len(listing) > 0 THEN 1 ELSE 0)
    /\ virtual_count = 0

\* What a handler of the list leaves alone
ListHandler(name) ==
    /\ call' = name
    /\ UNCHANGED <<file, written, previous, decoded, bookVars, editorVars, swapVars, chunkVars>>

\* ImageList.updateDirectory(), lines 2004-2006, on the files the directory
\* holds now: loadImages() clears the list and makes a new stack, whose first
\* editor is its current widget; when read_character raises, the loop ends
\* there, and virtual_count is not reset and updateStack() not called
updateDirectory ==
    /\ ListHandler("updateDirectory")
    /\ \E files \in Listings :
           \E k \in {FirstRaising(files, 1)} :
               /\ listing' = files
               /\ rows' = RowsUntil(files, k)
               /\ current' = IF k > 1 THEN 1 ELSE 0
               /\ IF k > Len(files)
                  THEN /\ stack' = ViewCurrent(EditorsUntil(files, k), IF k > 1 THEN 1 ELSE 0)
                       /\ virtual_count' = 0
                       /\ ret' = Return(PyNone)
                  ELSE /\ stack' = EditorsUntil(files, k)
                       /\ virtual_count' = virtual_count
                       /\ ret' = read_character(files[k]).ret

\* ImageList.showImage(item), lines 1992-1996, on the row at index i:
\* setCurrentIndex of an index the stack does not have changes nothing, and
\* currentWidget() of an empty stack is None
showImage ==
    /\ ListHandler("showImage")
    /\ \E i \in 1..Len(rows) :
           \E index \in {IF i <= Len(stack) THEN i ELSE current} :
               /\ current' = index
               /\ stack' = ViewCurrent(stack, index)
               /\ ret' = IF index = 0 THEN Raise("AttributeError") ELSE Return(PyNone)
    /\ UNCHANGED <<listing, rows, virtual_count>>

\* ImageList.addVirtualCard(card_data), lines 2008-2027, from New Card: a
\* row and an editor are appended and the new row is shown
addVirtualCard ==
    /\ ListHandler("addVirtualCard")
    /\ virtual_count < MaxVirtual
    /\ rows' = Append(rows, Row("virtual"))
    /\ \E index \in {IF Len(rows) + 1 <= Len(stack) + 1 THEN Len(rows) + 1
                     ELSE IF current = 0 THEN 1 ELSE current} :
           /\ current' = index
           /\ stack' = ViewCurrent(Append(stack, Editor("virtual", deep_empty_card)), index)
    /\ virtual_count' = virtual_count + 1
    /\ ret' = Return(PyNone)
    /\ UNCHANGED listing

ListNext == updateDirectory \/ showImage \/ addVirtualCard

ListSpec == ListInit /\ [][ListNext]_vars

-----------------------------------------------------------------------------
(* Chunked generation: AIAssistWidget._call_koboldcpp_chunked, lines         *)
(* 991-1075, with _extract_json, lines 1078-1125.  The handler runs to its   *)
(* end on the GUI thread; every request returns or raises within its         *)
(* timeout; processEvents() lets a click on Stop in between the requests.    *)
(* The function may be called again once it has returned.                    *)

MaxPasses == 3

\* text.find(c) and text.rfind(c): the index of the first and of the last c
\* of the text, 0 if there is none
Find(text, c) ==
    IF \E i \in 1..Len(text) : CharAt(text, i) = c
    THEN CHOOSE i \in 1..Len(text) :
             CharAt(text, i) = c /\ \A j \in 1..(i - 1) : CharAt(text, j) # c
    ELSE 0
RFind(text, c) ==
    IF \E i \in 1..Len(text) : CharAt(text, i) = c
    THEN CHOOSE i \in 1..Len(text) :
             CharAt(text, i) = c /\ \A j \in (i + 1)..Len(text) : CharAt(text, j) # c
    ELSE 0

\* text.count(c)
Count(text, c) == Cardinality({i \in 1..Len(text) : CharAt(text, i) = c})

\* The index of the first character of the text from index i that is no space
RECURSIVE SkipSpaces(_, _)
SkipSpaces(text, i) ==
    IF i <= Len(text) /\ CharAt(text, i) = " " THEN SkipSpaces(text, i + 1) ELSE i

\* The comma at index i is followed by spaces and a closing brace or bracket
Trailing(text, i) ==
    /\ CharAt(text, i) = ","
    /\ SkipSpaces(text, i + 1) <= Len(text)
    /\ CharAt(text, SkipSpaces(text, i + 1)) \in {"}", "]"}

\* re.sub(r',\s*([}\]])', r'\1', fragment), line 1108, from index i
RECURSIVE NoTrailingCommas(_, _)
NoTrailingCommas(text, i) ==
    IF i > Len(text) THEN ""
    ELSE IF Trailing(text, i) THEN NoTrailingCommas(text, SkipSpaces(text, i + 1))
    ELSE CharAt(text, i) \o NoTrailingCommas(text, i + 1)

\* n closing braces
RECURSIVE Braces(_)
Braces(n) == IF n = 0 THEN "" ELSE "}" \o Braces(n - 1)

\* Lines 1094-1099: the largest {...} slice, or the text from its first {
Fragment(text, start, end) ==
    IF end # 0 /\ end > start THEN SubSeq(text, start, end) ELSE SubSeq(text, start, Len(text))

\* Lines 1115-1122: opens and closes counted, at most three braces added
Balanced(fragment, opens, closes) ==
    IF opens > closes
       /\ Loads(fragment \o Braces(IF opens - closes < 3 THEN opens - closes ELSE 3)).ok
    THEN Loads(fragment \o Braces(IF opens - closes < 3 THEN opens - closes ELSE 3)).value
    ELSE PyNone

\* Lines 1101-1125 on the fragment
Repaired(fragment) ==
    IF Loads(fragment).ok THEN Loads(fragment).value
    ELSE IF Loads(NoTrailingCommas(fragment, 1)).ok
    THEN Loads(NoTrailingCommas(fragment, 1)).value
    ELSE Balanced(fragment, Count(fragment, "{"), Count(fragment, "}"))

\* Lines 1083-1099 on the stripped text
Extracted(text) ==
    IF Loads(text).ok THEN Loads(text).value
    ELSE IF Find(text, "{") = 0 THEN PyNone
    ELSE Repaired(Fragment(text, Find(text, "{"), RFind(text, "}")))

\* AIAssistWidget._extract_json(text), lines 1078-1125
extract_json(text) == IF text = "" THEN PyNone ELSE Extracted(Strip(text))

\* bool(x): what `if data:` takes as true (lines 1046 and 1069)
Truthy(x) ==
    CASE IsNone(x) -> FALSE
      [] IsBool(x) -> x.bool
      [] IsInt(x) -> x.int # 0
      [] IsFloat(x) -> x.float # 0
      [] IsStr(x) -> x.str # ""
      [] IsList(x) -> Len(x.list) > 0
      [] IsDict(x) -> Len(x.dict) > 0

\* The texts post_once returns (lines 1022-1035): pieces of JSON, chatter,
\* and "" for a response without a text
Pieces == {"", "Sure: ", "{\"a\": 1,", " }", "{\"b\": [", "0", "{}"}

\* The texts n requests can aggregate (lines 1043 and 1063)
RECURSIVE Aggregates(_)
Aggregates(n) ==
    IF n = 0 THEN {""}
    ELSE Aggregates(n - 1) \cup {text \o piece : text \in Aggregates(n - 1), piece \in Pieces}

\* Line 1073, return self._extract_json(aggregated): the last try, for each
\* text the passes can aggregate
LastTry == [text \in Aggregates(MaxPasses) |-> extract_json(text)]

\* A variant of MorePasses with one pass more
MorePassesThanMax(n, max) == n <= max

\* Line 1052, for _ in range(2, max_passes + 1): a pass follows n requests
MorePasses(n, max) == n < max

ChunkInit ==
    /\ file = [format |-> "PNG", text |-> <<>>]
    /\ written = Unbound
    /\ previous = Unbound
    /\ call = "none"
    /\ decoded = Unbound
    /\ ret = Return(PyNone)
    /\ source = Unbound
    /\ document = Unbound
    /\ worldBook = Unbound
    /\ original = Unbound
    /\ bookBefore = Unbound
    /\ characterBook = Unbound
    /\ imports = 0
    /\ NoEditor
    /\ NoSwap
    /\ NoList
    /\ NoChunk

\* What a step of the generation leaves alone
Generation(name) ==
    /\ call' = name
    /\ UNCHANGED <<file, written, previous, decoded, bookVars, editorVars, swapVars, listVars>>

\* Lines 1003-1041: max_passes is read from its spin box (range 1..50, line
\* 766), the flag is reset, Stop is enabled, aggregated is empty, and the
\* flag, read at once (line 1039), is not set
call_koboldcpp_chunked ==
    /\ at \in {"idle", "done"}
    /\ Generation("_call_koboldcpp_chunked")
    /\ max_passes' \in 1..MaxPasses
    /\ stop_requested' = FALSE
    /\ stopEnabled' = TRUE
    /\ aggregated' = ""
    /\ requests' = 0
    /\ observed' = FALSE
    /\ at' = "post"
    /\ UNCHANGED ret

\* The function returns: `finally` disables Stop (lines 1074-1075)
Finally(outcome) ==
    /\ ret' = outcome
    /\ stopEnabled' = FALSE
    /\ at' = "done"

\* Lines 1042-1047 and 1061-1070: a request is posted; its text is added to
\* aggregated; processEvents() may run a click on Stop; the function returns
\* the data extracted if it is true, goes to the next pass, or returns what
\* the last try extracts (line 1073).  A request that raises ends the function
post_once ==
    /\ at = "post"
    /\ Generation("post_once")
    /\ UNCHANGED max_passes
    /\ requests' = requests + 1
    /\ \/ /\ Finally(Raise("RuntimeError"))
          /\ UNCHANGED <<aggregated, stop_requested, observed>>
       \/ \E piece \in Pieces :
              /\ aggregated' = aggregated \o piece
              /\ \E clicked \in BOOLEAN : stop_requested' = (stop_requested \/ clicked)
              /\ IF Truthy(extract_json(aggregated \o piece))
                    \/ ~MorePasses(requests + 1, max_passes)
                 THEN Finally(Return(extract_json(aggregated \o piece)))
                 ELSE /\ at' = "for"
                      /\ UNCHANGED <<ret, stopEnabled>>
              /\ UNCHANGED observed

\* Lines 1052-1055: the head of a later pass reads the flag; when it is set
\* the loop is left and the last try is returned (line 1073)
NextPass ==
    /\ at = "for"
    /\ Generation("for")
    /\ IF stop_requested
       THEN /\ observed' = TRUE
            /\ Finally(Return(LastTry[aggregated]))
       ELSE /\ at' = "post"
            /\ UNCHANGED <<ret, stopEnabled, observed>>
    /\ UNCHANGED <<aggregated, requests, stop_requested, max_passes>>

ChunkNext == call_koboldcpp_chunked \/ post_once \/ NextPass

\* A handler that was entered runs on: each request returns or raises within
\* its timeout (line 1027), and nothing else holds the function up
ChunkSpec == ChunkInit /\ [][ChunkNext]_vars /\ WF_vars(post_once \/ NextPass)

-----------------------------------------------------------------------------
(* What the calls establish.  In a state whose last call is read_character, *)
(* file is the file that was read: read_character leaves it as it is.       *)

\* The value of the "chara" entry of the file, None when it has none (line 124)
Chara == TextGet(file.text, "chara")

\* The object lines 136-143 work on: the decoded object itself when lines
\* 132-135 wrap it, its "data" otherwise
DataOf(x) ==
    IF Get(x, "spec", PyNone) # PyStr("chara_card_v2") THEN x ELSE Get(x, "data", PyNone)

\* d["character_book"]["entries"] where lines 140-141 find it in a dict book
EntriesOf(d) ==
    IF /\ IsDict(d)
       /\ IsDict(Get(d, "character_book", PyNone))
       /\ HasKey(Item(d, "character_book"), "entries")
    THEN Item(Item(d, "character_book"), "entries")
    ELSE Unbound

\* C1: round-trip law.  Reading the file that write_character wrote for a card c
\* returns, without error, the card normalize(serialize(c)): the value
\* read_character makes of the JSON document of c.
C1_RoundTrip ==
    (call = "read_character" /\ written # Unbound)
        => /\ ret.ok
           /\ ret = Normalize(Loads(Dumps(written)).value)

\* A card with a lorebook was written and read back; the card read is the
\* normalized one, which differs from the card written
C1_Witness ==
    /\ call = "read_character"
    /\ written = FullCard
    /\ ret.ok
    /\ ret.value # FullCard
    /\ Item(ret.value, "spec") = PyStr("chara_card_v2")

\* C2, as stated: when the "chara" entry exists and its value is not valid
\* base64 (RFC 4648: the alphabet, padded with "=" to a multiple of four), or
\* decodes to bytes that are not UTF-8, or to text that is not JSON,
\* read_character ends in an error.
C2_Original ==
    LET b == Utf8Encode(Chara.str)
        n == Len(b)
        strict == /\ n % 4 = 0
                  /\ \A i \in 1..n :
                        \/ B64Value(b[i]) < 64
                        \/ i > n - 2 /\ \A j \in i..n : b[j] = B64Pad
        undecodable == \/ ~strict
                       \/ ~B64Decode(b).ok
                       \/ ~Utf8Decode(B64Decode(b).bytes).ok
                       \/ ~Loads(Utf8Decode(B64Decode(b).bytes).text).ok
    IN  (call = "read_character" /\ file.format = "PNG" /\ Chara # PyNone /\ undecodable)
            => ~ret.ok

\* C2, amended: when the "chara" entry exists and its value cannot be decoded
\* by the decoders read_character uses (b64decode without validation, which
\* skips what is outside the alphabet and fails only on data that ends inside
\* a group of four; UTF-8; JSON), read_character ends in the decoder's error
\* and returns no card, whereas a file without the entry yields a card.
C2_DecodeError ==
    LET b == B64Decode(Utf8Encode(Chara.str))
        undecodable == \/ ~b.ok
                       \/ ~Utf8Decode(b.bytes).ok
                       \/ ~Loads(Utf8Decode(b.bytes).text).ok
    IN  (call = "read_character" /\ file.format = "PNG")
            => /\ (Chara # PyNone /\ undecodable)
                    => /\ ~ret.ok
                       /\ ret.err \in {"binascii.Error", "UnicodeDecodeError",
                                       "JSONDecodeError"}
                       /\ decoded = Unbound
               /\ Chara = PyNone => ret.ok

\* A value that b64decode rejects was read, and the error reached the caller
C2_Witness ==
    /\ call = "read_character"
    /\ file.format = "PNG"
    /\ Chara = PyStr("e30")
    /\ ret = Raise("binascii.Error")

\* C3: reading a PNG that has no "chara" entry returns, without error, the
\* default card: spec "chara_card_v2", spec_version "2.0", every string field of
\* data empty, tags and alternate_greetings empty lists, extensions an empty
\* dict, and nothing else.
C3_DefaultCard ==
    LET strings == <<"name", "description", "personality", "scenario", "first_mes",
                     "mes_example", "creator_notes", "system_prompt",
                     "post_history_instructions", "creator", "character_version">>
        card == ret.value
        d == Item(ret.value, "data")
    IN  (call = "read_character" /\ file.format = "PNG" /\ Chara = PyNone)
            => /\ ret.ok
               /\ IsDict(card)
               /\ {card.dict[i][1] : i \in 1..Len(card.dict)} = {"spec", "spec_version", "data"}
               /\ Item(card, "spec") = PyStr("chara_card_v2")
               /\ Item(card, "spec_version") = PyStr("2.0")
               /\ IsDict(d)
               /\ {d.dict[i][1] : i \in 1..Len(d.dict)}
                     = {strings[i] : i \in 1..Len(strings)}
                          \cup {"tags", "alternate_greetings", "extensions"}
               /\ \A i \in 1..Len(strings) : Item(d, strings[i]) = PyStr("")
               /\ Item(d, "tags") = PyList(<<>>)
               /\ Item(d, "alternate_greetings") = PyList(<<>>)
               /\ Item(d, "extensions") = PyDict(<<>>)

\* A PNG whose only text chunk has another key was read
C3_Witness ==
    /\ call = "read_character"
    /\ file = [format |-> "PNG", text |-> <<Chunk("Comment", "e30=")>>]
    /\ ret.ok
    /\ decoded = Unbound

\* C4: when the decoded JSON is no object, read_character returns the default
\* card and raises no error.
C4_NonObjectDefault ==
    (call = "read_character" /\ decoded # Unbound /\ ~IsDict(decoded))
        => ret = Return(deep_empty_card)

\* C5: for every decoded JSON object, read_character returns a card and raises
\* no error.
C5_ObjectReturns ==
    (call = "read_character" /\ IsDict(decoded)) => ret.ok

C7_LegacyWrap ==
    (call = "read_character" /\ IsDict(decoded))
        => IF Get(decoded, "spec", PyNone) # PyStr("chara_card_v2")
           THEN /\ ret.ok
                /\ Item(ret.value, "spec") = PyStr("chara_card_v2")
                /\ Item(ret.value, "spec_version") = PyStr("2.0")
                /\ \A i \in 1..Len(decoded.dict) :
                      HasKey(Item(ret.value, "data"), decoded.dict[i][1])
           ELSE ret.ok => Keys(ret.value) = Keys(decoded)

\* C8: after read_character has made a card of an object whose
\* data.character_book.entries is a mapping, entries is the list of the
\* mapping's values, in the mapping's order.
C8_EntriesSequence ==
    (call = "read_character" /\ IsDict(decoded) /\ IsDict(EntriesOf(DataOf(decoded))))
        => /\ ret.ok
           /\ IsList(EntriesOf(Item(ret.value, "data")))
           /\ Len(EntriesOf(Item(ret.value, "data")).list)
                 = Len(EntriesOf(DataOf(decoded)).dict)

\* C9: after read_character has made a card of an object that has a list
\* data.character_book.entries, every entry's secondary_keys is a list: an
\* entry whose secondary_keys is absent or is no list gets the empty list, an
\* entry whose secondary_keys is a list is as it was; and read_character does
\* make a card when every element of the list is an object.
C9_SecondaryKeys ==
    (call = "read_character" /\ IsDict(decoded) /\ IsList(EntriesOf(DataOf(decoded))))
        => LET in == EntriesOf(DataOf(decoded)).list
               out == EntriesOf(Item(ret.value, "data"))
           IN  /\ (\A i \in 1..Len(in) : IsDict(in[i])) => ret.ok
               /\ ret.ok
                    => /\ IsList(out)
                       /\ Len(out.list) = Len(in)
                       /\ \A i \in 1..Len(in) :
                             /\ IsList(Get(out.list[i], "secondary_keys", PyNone))
                             /\ out.list[i]
                                   = IF IsList(Get(in[i], "secondary_keys", PyNone))
                                     THEN in[i]
                                     ELSE SetItem(in[i], "secondary_keys", PyList(<<>>))

\* A book was read whose first entry has a secondary_keys that is no list and
\* whose second entry has a list: the first got the empty list, the second
\* is as it was
C9_Witness ==
    /\ call = "read_character"
    /\ ret.ok
    /\ IsDict(decoded)
    /\ EntriesOf(DataOf(decoded)) = PyList(<<EntryBadKeys, EntryKeyed>>)
    /\ EntriesOf(Item(ret.value, "data"))
          = PyList(<<SetItem(EntryBadKeys, "secondary_keys", PyList(<<>>)), EntryKeyed>>)

\* C10: normalization is idempotent.  For every value x that json.loads
\* returns, read_character makes a card of x, and the card it makes of that
\* card's JSON document is the same card.
C10_Idempotent ==
    (call = "read_character" /\ decoded # Unbound)
        => /\ ret.ok
           /\ Normalize(Loads(Dumps(ret.value)).value) = ret

\* A card that read_character returns as it is: normalizing it changes nothing
Canonical(card) == Normalize(card) = Return(card)

\* C11: after one or more write_character calls on the file, the file is a PNG
\* with exactly one "chara" text entry, that entry is the encoding of the card
\* of the most recent write, and read_character returns the card of the most
\* recent write: the card itself when it is a canonical card, and in every
\* case the card its JSON document normalizes to.
C11_ReplacesChara ==
    written # Unbound
        => /\ file.format = "PNG"
           /\ Cardinality({i \in 1..Len(file.text) : file.text[i].key = "chara"}) = 1
           /\ Chara = PyStr(Encoded(written))
           /\ call = "read_character"
                => /\ ret = Normalize(Loads(Dumps(written)).value)
                   /\ Canonical(written) => ret = Return(written)

\* Two writes of different cards, the later one a canonical card with a
\* lorebook, and then a read that returned the later card
C11_Witness ==
    /\ call = "read_character"
    /\ previous # Unbound
    /\ previous # written
    /\ Canonical(written)
    /\ HasKey(Item(written, "data"), "character_book")
    /\ ret = Return(written)
    /\ Len(file.text) = 1

\* C12: a write_character call on a file that is no PNG ends in an error and
\* leaves the file as it was.
C12_InvalidImage ==
    [][(call' = "write_character" /\ file.format # "PNG")
          => (~ret'.ok /\ file' = file)]_vars

-----------------------------------------------------------------------------
(* What the worldbook import establishes.  In a state whose last call is    *)
(* process_worldbook or import_worldbook, source is the document the        *)
(* handler loaded and worldBook the outcome of process_worldbook on it;     *)
(* after import_worldbook, ret is its outcome, bookBefore the book it was   *)
(* given and characterBook that book as the call left it.                   *)

\* The book import_worldbook was given (line 634) and the worldbook (line 631)
Old == BookOf(bookBefore)
World == worldBook.value

\* The keys of a dict, as a set
KeySet(d) == {d.dict[i][1] : i \in 1..Len(d.dict)}

\* The entries process_worldbook loops over for a document whose "entries" is a
\* list or a dict: the list, or the values of the dict in its order
Listed(doc) ==
    IF IsDict(Item(doc, "entries")) THEN Values(Item(doc, "entries"))
    ELSE Item(doc, "entries").list

\* C13: when import_worldbook returns, the entries of the book are a sequence:
\* the entries the book had before (none if it had no "entries"), in their
\* order, followed by the entries of the worldbook, in their order, none
\* removed; and a second import of a worldbook with the same entries leaves
\* the old entries followed by the worldbook's entries twice.
C13_Concatenation ==
    (call = "import_worldbook" /\ ret.ok)
        => /\ IsList(Item(World, "entries"))
           /\ Item(characterBook, "entries")
                = PyList(Get(Old, "entries", PyList(<<>>)).list
                         \o Item(World, "entries").list)
           /\ (/\ imports = 2
               /\ Get(Old, "entries", PyNone)
                    = PyList(Get(BookOf(original), "entries", PyList(<<>>)).list
                             \o Item(World, "entries").list))
                => Item(characterBook, "entries")
                     = PyList(Get(BookOf(original), "entries", PyList(<<>>)).list
                              \o Item(World, "entries").list
                              \o Item(World, "entries").list)

\* C14: after any call of import_worldbook, for f = "name" and f =
\* "description": the book's f is the worldbook's f when the worldbook has an
\* f that is not the empty string and the book's f was the empty string or
\* absent; in every other case the book's f is as it was, absent if it was
\* absent.  So an f that the book had before the first import, and that was
\* not the empty string, is still its f after every import.
C14_Precedence ==
    call = "import_worldbook"
        => \A f \in {"name", "description"} :
             /\ IF /\ IsDict(World) /\ HasKey(World, f)
                   /\ Item(World, f) # PyStr("")
                   /\ Get(Old, f, PyStr("")) = PyStr("")
                THEN HasKey(characterBook, f) /\ Item(characterBook, f) = Item(World, f)
                ELSE /\ HasKey(characterBook, f) <=> HasKey(Old, f)
                     /\ HasKey(Old, f) => Item(characterBook, f) = Item(Old, f)
             /\ (HasKey(BookOf(original), f) /\ Item(BookOf(original), f) # PyStr(""))
                  => Get(characterBook, f, PyNone) = Item(BookOf(original), f)

\* A first import gave the book the description it lacked, and a second one,
\* of a worldbook with another description and another name, left both
C14_Witness ==
    /\ call = "import_worldbook"
    /\ ret.ok
    /\ imports = 2
    /\ Get(BookOf(original), "description", PyStr("")) = PyStr("")
    /\ Get(Old, "description", PyStr("")) = PyStr("W")
    /\ Get(World, "description", PyStr("")) = PyStr("W2")
    /\ Get(characterBook, "description", PyStr("")) = PyStr("W")
    /\ Get(characterBook, "name", PyStr("")) # Get(World, "name", PyStr(""))

\* C15: when import_worldbook returns, the book's extensions is a mapping whose
\* keys are those of the book's old extensions and those of the worldbook's
\* extensions (each the empty mapping when absent), each key once; a key of
\* the worldbook's extensions has the worldbook's value, and a key only the
\* book had keeps the book's value.
C15_Extensions ==
    (call = "import_worldbook" /\ ret.ok)
        => /\ HasKey(characterBook, "extensions")
           /\ IsDict(Item(characterBook, "extensions"))
           /\ IsDict(Get(Old, "extensions", PyDict(<<>>)))
           /\ IsDict(Get(World, "extensions", PyDict(<<>>)))
           /\ KeySet(Item(characterBook, "extensions"))
                = KeySet(Get(Old, "extensions", PyDict(<<>>)))
                  \cup KeySet(Get(World, "extensions", PyDict(<<>>)))
           /\ Len(Item(characterBook, "extensions").dict)
                = Cardinality(KeySet(Item(characterBook, "extensions")))
           /\ \A k \in KeySet(Get(World, "extensions", PyDict(<<>>))) :
                Item(Item(characterBook, "extensions"), k)
                  = Item(Get(World, "extensions", PyDict(<<>>)), k)
           /\ \A k \in KeySet(Get(Old, "extensions", PyDict(<<>>)))
                       \ KeySet(Get(World, "extensions", PyDict(<<>>))) :
                Item(Item(characterBook, "extensions"), k)
                  = Item(Get(Old, "extensions", PyDict(<<>>)), k)

\* The book had {"a": 1, "c": 4} and the worldbook {"a": 2, "b": 3}: the
\* worldbook's value for "a", the book's for "c", and "b" added
C15_Witness ==
    /\ call = "import_worldbook"
    /\ ret.ok
    /\ Get(Old, "extensions", PyNone) = PyDict(<< <<"a", PyInt(1)>>, <<"c", PyInt(4)>> >>)
    /\ Get(World, "extensions", PyNone) = PyDict(<< <<"a", PyInt(2)>>, <<"b", PyInt(3)>> >>)
    /\ Item(characterBook, "extensions")
         = PyDict(<< <<"a", PyInt(2)>>, <<"c", PyInt(4)>>, <<"b", PyInt(3)>> >>)

CarriesBook(doc) ==
    /\ IsDict(doc)
    /\ Get(doc, "spec", PyNone) = PyStr("chara_card_v2")
    /\ IsDict(Get(doc, "data", PyNone))
    /\ HasKey(Item(doc, "data"), "character_book")

\* C17: process_worldbook returns None, raising nothing, exactly when the
\* document is no object, or is an object that has no "entries" and is not a
\* V2 card carrying data.character_book.
C17_NullExactly ==
    call \in {"process_worldbook", "import_worldbook"}
        => (worldBook = Return(PyNone)
              <=> \/ ~IsDict(source)
                  \/ ~HasKey(source, "entries") /\ ~CarriesBook(source))

\* C18: for a document without "entries" that is a V2 card carrying
\* data.character_book, process_worldbook returns that character_book, with
\* the entries and the fields it has in the card.
C18_NestedBook ==
    (/\ call \in {"process_worldbook", "import_worldbook"}
     /\ CarriesBook(source)
     /\ ~HasKey(source, "entries"))
        => worldBook = Return(Item(Item(source, "data"), "character_book"))

\* The book of another card was the worldbook, and its entries reached the
\* book of the editor
C18_Witness ==
    /\ call = "import_worldbook"
    /\ ret.ok
    /\ CarriesBook(source)
    /\ ~HasKey(source, "entries")
    /\ World = Item(Item(source, "data"), "character_book")
    /\ Item(World, "entries") = PyList(<<E2, ESame>>)
    /\ Item(World, "name") = PyStr("WN")
    /\ Len(Item(characterBook, "entries").list) >= 2

\* C19: whenever process_worldbook returns a value that is not None, the
\* value's "entries" is a list: the list the document had, or for a keyed
\* mapping the list of its values, each once, in the mapping's order; and
\* every other top-level field of the result is as the document had it.
C19_EntriesSequence ==
    (/\ call \in {"process_worldbook", "import_worldbook"}
     /\ worldBook.ok
     /\ World # PyNone)
        => /\ IsDict(World)
           /\ HasKey(World, "entries")
           /\ IsList(Item(World, "entries"))
           /\ (IsDict(source) /\ HasKey(source, "entries")
                 /\ IsDict(Item(source, "entries")))
                => Len(Item(World, "entries").list) = Len(Item(source, "entries").dict)
           /\ (IsDict(source) /\ HasKey(source, "entries"))
                => \A k \in KeySet(source) \ {"entries"} :
                     HasKey(World, k) /\ Item(World, k) = Item(source, k)

\* C20: import_worldbook returns the book it was given, as the call left it,
\* and of that book only name, description, entries and extensions may have
\* changed: every other field it had it still has, with the value it had,
\* and it has no other field than those.
C20_Frame ==
    call = "import_worldbook"
        => /\ ret.ok => ret.value = characterBook
           /\ IsDict(characterBook)
           /\ \A k \in (KeySet(characterBook) \cup KeySet(Old))
                       \ {"name", "description", "entries", "extensions"} :
                /\ HasKey(characterBook, k)
                /\ HasKey(Old, k)
                /\ Item(characterBook, k) = Item(Old, k)

\* A book with scan_depth, token_budget, recursive_scanning and an unknown
\* field took a worldbook that has a scan_depth of its own
C20_Witness ==
    /\ call = "import_worldbook"
    /\ ret.ok
    /\ ret.value = characterBook
    /\ characterBook # Old
    /\ Get(World, "scan_depth", PyNone) = PyInt(7)
    /\ Get(characterBook, "scan_depth", PyNone) = PyInt(2)
    /\ Get(characterBook, "token_budget", PyNone) = PyInt(5)
    /\ Get(characterBook, "recursive_scanning", PyNone) = PyBool(FALSE)
    /\ Get(characterBook, "zz", PyNone) = PyStr("u")

\* C21, as stated: process_worldbook leaves the document passed to it as it
\* was: the document is value-equal before and after the call.
C21_Original ==
    call \in {"process_worldbook", "import_worldbook"} => document = source

\* C21: process_worldbook works in place.  A document it returns None for, and
\* a document without "entries", is after the call as it was before; for a
\* document with "entries" the value returned is the document itself, so the
\* document has the converted entries list and has lost the `entry` fields
\* that the result has lost; and import_worldbook, which is given that value,
\* leaves it as it was and changes only the book.
C21_InPlace ==
    call \in {"process_worldbook", "import_worldbook"}
        => /\ worldBook = Return(PyNone) => document = source
           /\ (IsDict(source) /\ ~HasKey(source, "entries")) => document = source
           /\ (IsDict(source) /\ HasKey(source, "entries") /\ worldBook.ok)
                => document = World
           /\ (call = "import_worldbook" /\ IsDict(source) /\ HasKey(source, "entries"))
                => document = process_worldbook(source).value

\* A document whose entries were a keyed mapping, one of them with a redundant
\* `entry`, was imported: the document now has the list, without that field
C21_Witness ==
    /\ call = "import_worldbook"
    /\ ret.ok
    /\ IsDict(source) /\ HasKey(source, "entries")
    /\ Item(source, "entries") = PyDict(<< <<"7", ESame>>, <<"3", EDiff>> >>)
    /\ Item(document, "entries") = PyList(<<PyDict(<< <<"content", PyStr("x")>> >>), EDiff>>)
    /\ document # source
\* C22: when the chosen file is no worldbook (process_worldbook returns None),
\* Import Worldbook changes nothing: the cards of the editor and of the book
\* widget, the boxes and the entry list shown, and the dirty style are as before
C22_NoOp ==
    [][(call' = "ImportWorldbookClicked" /\ worldBook' = Return(PyNone))
          => /\ editorData' = editorData
             /\ bookData' = bookData
             /\ editorForm' = editorForm
             /\ bookForm' = bookForm
             /\ dirty' = dirty]_vars

\* A card with an entry shown and no dirty style, after the import of a
\* document that is no worldbook
C22_Witness ==
    /\ call = "ImportWorldbookClicked"
    /\ worldBook = Return(PyNone)
    /\ source = PyDict(<< <<"name", PyStr("x")>> >>)
    /\ ~dirty
    /\ Len(bookForm.entries) > 0
    /\ HasKey(Item(bookData, "data"), "character_book")

\* The entries of the character book of a card
BookEntries(fullData) == Get(BookOfCard(fullData), "entries", PyList(<<>>)).list

\* A tri-state field of a record: true, false, or Unbound for no key
Tri(d, key) == Get(d, key, Unbound)

\* The field is stored as the box shows it: true for checked, false for
\* unchecked, no key for partially checked
Stored(x, state) ==
    \/ state = "Checked" /\ x = PyBool(TRUE)
    \/ state = "Unchecked" /\ x = PyBool(FALSE)
    \/ state = "PartiallyChecked" /\ x = Unbound

\* The form is in step with the card of the book widget: no edit since it
\* was loaded
Unedited == bookForm = BookUIFromData(bookData)

SyncedOrMerged ==
    \/ call \in {"updateTokenCount", "saveClicked"} /\ ret.ok
    \/ call = "ImportWorldbookClicked" /\ ret.ok /\ worldBook # Return(PyNone)

\* C24: after a sync of the form into the card and after a worldbook merge,
\* the extensions of the card's character book are present and a mapping,
\* whatever text the Extensions box of the book holds
C24_ExtensionsMapping ==
    SyncedOrMerged
        => /\ HasKey(Item(bookData, "data"), "character_book")
           /\ IsDict(Get(BookOfCard(bookData), "extensions", PyNone))

\* C26: after any sequence of editor operations, the character-book widget
\* and its editor refer to one and the same card record, so the book that is
\* shown, edited and synced is the book of the card that Save writes
C26_SameCard == call # "none" => aliased /\ bookData = editorData

\* The entries of the worldbook the handler merged, as entry widgets show them
Imported == EntryWidgets(Item(worldBook.value, "entries").list)

\* What the user sees of an entry widget: its keys, content and check boxes
Seen(w) == <<w.keys, w.content, w.enabled, w.case_sensitive, w.constant, w.selective>>

\* C27: when a worldbook with entries W is imported while the entry list shows
\* entries L, edits since the last sync included, the entry list shows L
\* followed by W afterwards, and the entries of the card's character book are
\* the entries the list shows
C27_KeepsShown ==
    [][(call' = "ImportWorldbookClicked" /\ ret'.ok /\ worldBook' # Return(PyNone))
          => /\ Len(bookForm'.entries) = Len(bookForm.entries) + Len(Imported')
             /\ \A i \in 1..Len(bookForm.entries) :
                   i <= Len(bookForm'.entries)
                       => Seen(bookForm'.entries[i]) = Seen(bookForm.entries[i])
             /\ \A i \in 1..Len(Imported') :
                   Len(bookForm.entries) + i <= Len(bookForm'.entries)
                       => bookForm'.entries[Len(bookForm.entries) + i] = Imported'[i]
             /\ EntryWidgets(BookEntries(bookData')) = bookForm'.entries]_vars

\* C28: viewing does not edit: a normalized card loaded into the form and read
\* back by updateDataFromUI with no edit in between is value-equal to the card
\* that was loaded
C28_ViewingKeeps ==
    [][(call' = "updateTokenCount" /\ steps = 0) => PyEq(editorData', editorData)]_vars

\* changeImageClicked returned after a statement of its try block raised,
\* and its recovery raised nothing
Failed == pc = "idle" /\ swaps > 0 /\ ~ret.ok /\ ~swallowed

\* C25: when a statement of changeImageClicked's try block fails (removing a
\* stale .bak, renaming the original, copying the new PNG, writing the card,
\* removing the .bak), a file is at the card's path when the handler returns
\* and it is the file that was there before, with or without a .bak beforehand
C25_SafeSwap == Failed => disk.original = kept

\* C29: after any sequence of loadImages, updateDirectory and addVirtualCard
\* calls, a loadImages in which read_character raised included, the card list
\* and the editor stack have the same number of elements and the editor at
\* stack index i is the editor of the card of list row i
C29_Aligned ==
    /\ Len(rows) = Len(stack)
    /\ \A i \in 1..Len(rows) : i <= Len(stack) => stack[i].name = rows[i].name

\* C30: a call of _call_koboldcpp_chunked (a) posts at most max_passes
\* generate requests, (b) posts a request only while _extract_json has found
\* nothing true in the aggregated text (a "non-empty JSON value" is one that
\* `if data:` takes as true: null, false, 0, "", [] and {} are not) and while
\* it has not read the Stop flag set, (c) has disabled the Stop button whenever
\* it has returned or raised, and (d) returns or raises whatever the backend
\* answers
C30_Chunked ==
    /\ [](requests <= max_passes)
    /\ [][requests' = requests + 1
            => ~Truthy(extract_json(aggregated)) /\ ~observed]_vars
    /\ [](at = "done" => ~stopEnabled)
    /\ (at \in {"post", "for"}) ~> (at = "done")

\* The second request completes an object: the function returns it with a
\* pass to spare, and Stop is disabled
C30_Witness ==
    /\ at = "done"
    /\ requests = 2
    /\ max_passes = MaxPasses
    /\ aggregated = "{\"a\": 1, }"
    /\ ret = Return(PyDict(<< <<"a", PyInt(1)>> >>))
    /\ ~stopEnabled

====
